---- MODULE Spec2Model ----
(***************************************************************************)
(* Changed-file detection engine of repository-metadata-action.            *)
(*                                                                         *)
(* ChangedFilesExtractor.extract() (src/extractors/changed_files.py) is    *)
(* modelled as a sequential state machine: one action per step of the      *)
(* decision tree, each action containing exactly one call into an          *)
(* accessor (GitOperations or GitHubAPI) together with all the engine code *)
(* that runs before the next accessor call.  The accessors are the         *)
(* environment: every call either raises or returns, and a categorized     *)
(* diff returns what GitOperations computes from a set of diff records.    *)
(* Every accessor call is appended to `calls`.                             *)
(***************************************************************************)
EXTENDS Integers, Sequences, FiniteSets, TLC

\* ------------------------------------------------------------------ bounds
\* Number of distinct repository paths; a path is represented by its rank
\* in lexicographic order (path 1 < path 2 < ...), 0 stands for "no path".
MaxPaths == 2
\* Largest number of diff records one diff yields.
MaxDiffs == 2
\* Largest number of file names one remote file-list call yields.
MaxApiFiles == 2
\* Fetched history: how far back the commits on disk reach.
MaxHistory == 2
\* Calls counted per operation between two successful fetches.
MaxCalls == 2
\* Files in the listing the API yields for one pull request.
MaxListed == 3
\* Largest max_files passed explicitly.
MaxCap == 2

Paths == 1..MaxPaths
NoPath == 0

\* --------------------------------------------------------------- constants
NULL_SHA == "0000000000000000000000000000000000000000"
NULL_STRING == "null"
None == "<None>"
SHA_A == "aaaaaaaaaaaaaaaaaaaaaaaaaaaaaaaaaaaaaaaa"
SHA_B == "bbbbbbbbbbbbbbbbbbbbbbbbbbbbbbbbbbbbbbbb"
HEAD_SHA == "abc123def456"
DEFAULT_GIT_FETCH_DEPTH == 15
MAX_PR_FILES == 3000
REPOSITORY == "owner/repo"

\* ------------------------------------------------------- python primitives
\* sorted(set(xs)) for a set of paths: ascending, duplicate free.
RECURSIVE SortedSet(_)
SortedSet(S) ==
    IF S = {} THEN <<>>
    ELSE LET m == CHOOSE x \in S : \A y \in S : x <= y
         IN  <<m>> \o SortedSet(S \ {m})

Range(s) == {s[i] : i \in 1..Len(s)}

NoDuplicates(s) == \A i, j \in 1..Len(s) : i # j => s[i] # s[j]

\* Python truthiness of an optional string.
Truthy(s) == s # None /\ s # ""

\* ----------------------------------------------- GitOperations: diff records
\* One GitPython Diff object: the three status flags and the two paths.
\* git sets at most one of the flags.
DiffFlags ==
    { [new_file |-> TRUE,  deleted_file |-> FALSE, renamed_file |-> FALSE],
      [new_file |-> FALSE, deleted_file |-> TRUE,  renamed_file |-> FALSE],
      [new_file |-> FALSE, deleted_file |-> FALSE, renamed_file |-> TRUE],
      [new_file |-> FALSE, deleted_file |-> FALSE, renamed_file |-> FALSE] }

DiffRecords ==
    { [new_file |-> f.new_file, deleted_file |-> f.deleted_file,
       renamed_file |-> f.renamed_file, a_path |-> a, b_path |-> b] :
        f \in DiffFlags, a \in Paths \cup {NoPath}, b \in Paths \cup {NoPath} }

\* The sets of at most n elements of S.
RECURSIVE SubsetsUpTo(_, _)
SubsetsUpTo(S, n) ==
    IF n = 0 THEN {{}}
    ELSE LET smaller == SubsetsUpTo(S, n - 1)
         IN  smaller \cup { s \cup {x} : s \in smaller, x \in S }

\* What one diff can yield: at most MaxDiffs records.
DiffSets == SubsetsUpTo(DiffRecords, MaxDiffs)

EmptyCategorized == [added |-> <<>>, modified |-> <<>>, removed |-> <<>>]

\* The categorization loop shared by get_commit_files_categorized,
\* diff_commits_categorized and diff_branches_categorized.
AddedOf(diffs) ==
    { d.b_path : d \in { x \in diffs : x.new_file /\ x.b_path # NoPath } }

RemovedOf(diffs) ==
    { d.a_path : d \in { x \in diffs :
        ~x.new_file /\ x.deleted_file /\ x.a_path # NoPath } }

ModifiedOf(diffs) ==
    { d.b_path : d \in { x \in diffs :
        ~x.new_file /\ ~x.deleted_file /\ x.b_path # NoPath } }
    \cup
    { d.a_path : d \in { x \in diffs :
        ~x.new_file /\ ~x.deleted_file /\ ~x.renamed_file
        /\ x.b_path = NoPath /\ x.a_path # NoPath } }

Categorize(diffs) ==
    [added    |-> SortedSet(AddedOf(diffs)),
     modified |-> SortedSet(ModifiedOf(diffs)),
     removed  |-> SortedSet(RemovedOf(diffs))]

\* Every value a categorized diff operation can return.
CategorizedResults == { Categorize(ds) : ds \in DiffSets }

\* ------------------------------------------------------- GitHubAPI results
RECURSIVE SeqsUpTo(_, _)
SeqsUpTo(S, n) ==
    IF n = 0 THEN {<<>>}
    ELSE LET shorter == SeqsUpTo(S, n - 1)
         IN  shorter \cup { Append(s, x) : s \in shorter, x \in S }

\* Every list of file names get_pr_files can return.
ApiFileLists == SeqsUpTo(Paths, MaxApiFiles)

\* ------------------------------------------------------------------- state
VARIABLES
    config,     \* Config fields read by the engine, and the event payload
    github_api, \* TRUE iff the extractor was given a GitHubAPI client
    git_ops,    \* TRUE iff the extractor was given a GitOperations handler
    repo,       \* what has_git_repo() does: "present" (True), "absent"
                \* (False) or "error" (the check of .git raises)
    pc,         \* position inside extract()
    strategy,   \* value returned by _determine_pr_strategy
    calls,      \* accessor calls made so far, in order
    result,     \* outcome of extract()
    catops,     \* one repository situation handed to the categorized diff
                \* operations of GitOperations, and what each returned
    self,       \* the fields of one GitOperations instance
    worktree,   \* the repository on disk that instance looks at
    trace,      \* what the calls on that instance did so far
    prfiles     \* one call of GitHubAPI.get_pr_files, step by step

vars == <<config, github_api, git_ops, repo, pc, strategy, calls, result, catops,
         self, worktree, trace, prfiles>>

EventNames == {"push", "pull_request", "pull_request_target", "release"}
DetectionModes == {"auto", "git", "github_api"}

\* GITHUB_REF values and the number re.match(r"refs/pull/(\d+)/") extracts.
Refs == {None, "refs/heads/main", "refs/pull/7/merge"}
RefMatchesPull(ref) == ref = "refs/pull/7/merge"
RefPrNumber(ref) == IF RefMatchesPull(ref) THEN 7 ELSE 0

Configs ==
    [ GITHUB_EVENT_NAME : EventNames,
      CHANGE_DETECTION  : DetectionModes,
      GITHUB_TOKEN      : {None, "test-token"},
      GITHUB_BASE_REF   : {"", "main"},
      GITHUB_REF        : Refs,
      GITHUB_SHA        : {HEAD_SHA},
      GIT_FETCH_DEPTH   : {DEFAULT_GIT_FETCH_DEPTH},
      \* event payload (GITHUB_EVENT_PATH)
      before            : {None, NULL_STRING, NULL_SHA, SHA_A},
      after             : {None, SHA_B},
      pr_number         : {0, 9} ]

NoResult == [status |-> "none", count |-> 0, files |-> <<>>,
             added |-> <<>>, modified |-> <<>>, removed |-> <<>>]

Raised == [status |-> "raised", count |-> 0, files |-> <<>>,
           added |-> <<>>, modified |-> <<>>, removed |-> <<>>]

\* extract() lines 59-85: the ChangedFilesMetadata built from what the
\* event handler returned as (files, categorized); count=len(files), which
\* the model validator sync_counts sets again.
Metadata(files, categorized) ==
    [status |-> "returned", count |-> Len(files), files |-> files,
     added |-> categorized.added, modified |-> categorized.modified,
     removed |-> categorized.removed]

\* all_files = categorized["added"] + categorized["modified"] + categorized["removed"]
AllFiles(categorized) ==
    categorized.added \o categorized.modified \o categorized.removed

\* One entry of the call log: the operation, its string arguments, its
\* integer argument (depth or pull-request number, 0 when it has none) and
\* what the call did: raised, or returned a flag, a categorized dict or a
\* file list.
Call(op, args, num, raised, flag, cat, files) ==
    [op |-> op, args |-> args, num |-> num, raised |-> raised,
     flag |-> flag, cat |-> cat, files |-> files]

CallRaise(op, args, num) == Call(op, args, num, TRUE, FALSE, EmptyCategorized, <<>>)
CallFlag(op, b) == Call(op, <<>>, 0, FALSE, b, EmptyCategorized, <<>>)
CallCat(op, args, c) == Call(op, args, 0, FALSE, FALSE, c, <<>>)
CallFiles(op, args, num, fs) == Call(op, args, num, FALSE, FALSE, EmptyCategorized, fs)
CallVoid(op, args, num) == Call(op, args, num, FALSE, FALSE, EmptyCategorized, <<>>)

\* ------------------------------------- GitOperations: categorized diffs
\* A categorized diff operation that has not been run.
NotRun == [ran |-> FALSE, added |-> <<>>, modified |-> <<>>, removed |-> <<>>]

\* What a categorized diff operation returned.
Ran(categorized) ==
    [ran |-> TRUE, added |-> categorized.added,
     modified |-> categorized.modified, removed |-> categorized.removed]

\* commit.tree.traverse(): every entry below the root tree, blobs (tracked
\* files) and trees (directories) alike.  A directory exists only with a
\* file inside it, whose path sorts after the directory's.
Trees ==
    { t \in [Paths -> {"absent", "blob", "tree"}] :
        \A p \in Paths : t[p] = "tree" =>
            \E q \in Paths : q > p /\ t[q] = "blob" }

NoTree == [p \in Paths |-> "absent"]

\* The situations the operations are run in: a root commit with its tree,
\* a commit pair with the diff records between them, a lookup that raises
\* GitCommandError or ValueError, or no repository.
CatInputs ==
    { [kind |-> "root", tree |-> t, diffs |-> {}] : t \in Trees }
    \cup { [kind |-> "diff", tree |-> NoTree, diffs |-> ds] : ds \in DiffSets }
    \cup { [kind |-> k, tree |-> NoTree, diffs |-> {}] : k \in {"git_error", "no_repo"} }

\* The categorized operations are not in use.
CatIdle ==
    [input |-> [kind |-> "no_repo", tree |-> NoTree, diffs |-> {}],
     commit |-> NotRun, range |-> NotRun, branches |-> NotRun]

\* ------------------------------------------- GitOperations: one instance
PyBool(b) == IF b THEN "True" ELSE "False"

\* The (base, head) pairs diff_branches_categorized is called with.
BranchPairs == {<<"origin/main", "HEAD">>, <<"origin/dev", "HEAD">>}

\* cache_key not in self._merge_base_cache.
NotCached == "<absent>"

\* History needed on disk before base and HEAD have a common ancestor.
HistoryNeeded(pair) == IF pair[1] = "origin/main" THEN 1 ELSE 2

\* The common ancestor of a pair, named after the pair's base.
AncestorOf(pair) == IF pair[1] = "origin/main" THEN "m41n" ELSE "d3v"

\* self.repo.merge_base(base_commit, head_commit): merge_bases[0], or None
\* when git finds no common ancestor in the history on disk.
MergeBase(wt, pair) ==
    IF wt.history >= HistoryNeeded(pair) THEN AncestorOf(pair) ELSE None

\* __init__, lines 29-34.
NewGitOperations ==
    [_repo |-> None, _has_git |-> None, _is_shallow |-> None,
     _merge_base_cache |-> [pair \in BranchPairs |-> NotCached]]

Worktrees ==
    [dot_git : BOOLEAN, shallow : BOOLEAN, history : 0..MaxHistory]

\* What one call did: whether it got as far as the merge-base cache
\* (reached), invoked the merge-base primitive (prim), looked at the
\* repository on disk (inspected), raised, and what it returned.
NoOp == [op |-> "none", pair |-> <<>>, reached |-> FALSE, prim |-> FALSE,
         inspected |-> FALSE, raised |-> FALSE, error |-> None, ret |-> None,
         after_attempt |-> FALSE, after_success |-> FALSE]

\* Nothing was called yet.
NoTrace ==
    [calls |-> [pair \in BranchPairs |-> 0],
     reached |-> [pair \in BranchPairs |-> 0],
     prims |-> [pair \in BranchPairs |-> 0],
     raised |-> [pair \in BranchPairs |-> 0],
     shallow_calls |-> 0,
     shallow_inspections |-> 0,
     git_inspections |-> 0,
     shallow_answer |-> None,
     shallow_failed |-> FALSE,
     git_answer |-> None,
     after_attempt |-> FALSE,
     after_success |-> FALSE,
     last |-> NoOp]

\* No GitOperations instance is exercised.
OpsUnused ==
    /\ self = NewGitOperations
    /\ worktree = [dot_git |-> TRUE, shallow |-> FALSE, history |-> 0]
    /\ trace = NoTrace

\* ------------------------------------------------- GitHubAPI.get_pr_files
\* get_pr_files is not being called.
ApiIdle == [pc |-> "idle", listing |-> <<>>, max_files |-> MAX_PR_FILES,
            files |-> <<>>, pos |-> 0]

Init ==
    /\ config \in Configs
    /\ github_api \in BOOLEAN
    /\ git_ops \in BOOLEAN
    /\ repo \in {"present", "absent", "error"}
    /\ pc = "extract"
    /\ strategy = None
    /\ calls = <<>>
    /\ result = NoResult
    /\ catops = CatIdle
    /\ OpsUnused
    /\ prfiles = ApiIdle

\* Finish extract() with the given (files, categorized).
Return(files, categorized) ==
    /\ pc' = "done"
    /\ result' = Metadata(files, categorized)

\* An exception leaves extract().
Propagate ==
    /\ pc' = "done"
    /\ result' = Raised

\* Variant of Extract that sends every event other than a pull request
\* through the push handler.
Extract_OtherEventsAsPush ==
    /\ pc = "extract"
    /\ IF config.GITHUB_EVENT_NAME \in {"pull_request", "pull_request_target"}
       THEN pc' = "pr" /\ result' = result
       ELSE pc' = "push" /\ result' = result
    /\ UNCHANGED <<prfiles, self, worktree, trace, catops, config, github_api, git_ops, repo, strategy, calls>>

\* ------------------------------------------------------------ extract()
\* Lines 59-72: dispatch on the event name.
Extract ==
    /\ pc = "extract"
    /\ IF config.GITHUB_EVENT_NAME = "push"
       THEN pc' = "push" /\ result' = result
       ELSE IF config.GITHUB_EVENT_NAME \in {"pull_request", "pull_request_target"}
       THEN pc' = "pr" /\ result' = result
       ELSE Return(<<>>, EmptyCategorized)
    /\ UNCHANGED <<prfiles, self, worktree, trace, catops, config, github_api, git_ops, repo, strategy, calls>>

\* ------------------------------------------------- _extract_push_event()
\* Line 97: guard on the repository.  has_git_repo() is called outside the
\* try block, so an exception it raises leaves extract().
ExtractPushEventGuard ==
    /\ pc = "push"
    /\ IF ~git_ops
       THEN /\ Return(<<>>, EmptyCategorized)
            /\ calls' = calls
       ELSE \/ /\ repo = "error"
               /\ calls' = Append(calls, CallRaise("has_git_repo", <<>>, 0))
               /\ Propagate
            \/ /\ repo = "absent"
               /\ calls' = Append(calls, CallFlag("has_git_repo", FALSE))
               /\ Return(<<>>, EmptyCategorized)
            \/ /\ repo = "present"
               /\ calls' = Append(calls, CallFlag("has_git_repo", TRUE))
               /\ pc' = "push_diff"
               /\ result' = result
    /\ UNCHANGED <<prfiles, self, worktree, trace, catops, config, github_api, git_ops, repo, strategy>>

\* Variant of ExtractPushShas that returns the pair in the wrong order.
ExtractPushShas_Swapped(c) == <<c.after, c.before>>

\* _extract_push_shas_from_event(): the before/after strings of the payload,
\* (None, None) when there is no payload.
ExtractPushShas(c) == <<c.before, c.after>>

\* Variant of UseBeforeAfter without the initial-push check of line 108.
UseBeforeAfter_NoNullCheck(c) ==
    LET before == ExtractPushShas(c)[1]
        after  == ExtractPushShas(c)[2]
    IN  Truthy(before) /\ Truthy(after)

\* Lines 105-108: the payload names a usable before/after range.
UseBeforeAfter(c) ==
    LET before == ExtractPushShas(c)[1]
        after  == ExtractPushShas(c)[2]
    IN  /\ Truthy(before) /\ Truthy(after)
        /\ before # NULL_SHA /\ before # NULL_STRING

\* Lines 101-122: the diff of the push, inside the try block.
ExtractPushEvent ==
    /\ pc = "push_diff"
    /\ LET op   == IF UseBeforeAfter(config) THEN "diff_commits_categorized"
                   ELSE "get_commit_files_categorized"
           args == IF UseBeforeAfter(config)
                   THEN <<ExtractPushShas(config)[1], ExtractPushShas(config)[2]>>
                   ELSE <<config.GITHUB_SHA>>
       IN  \/ /\ calls' = Append(calls, CallRaise(op, args, 0))
              /\ Return(<<>>, EmptyCategorized)
           \/ \E categorized \in CategorizedResults :
              /\ calls' = Append(calls, CallCat(op, args, categorized))
              /\ Return(AllFiles(categorized), categorized)
    /\ UNCHANGED <<prfiles, self, worktree, trace, catops, config, github_api, git_ops, repo, strategy>>

\* ---------------------------------------------- _determine_pr_strategy()
\* A decision that does not consult has_git_repo().
Fixed(s) == [asks |-> FALSE, yes |-> s, no |-> s]
\* A decision that calls has_git_repo() and selects `y` on True, `n` on False.
AskRepo(y, n) == [asks |-> TRUE, yes |-> y, no |-> n]

\* Variant: auto mode tries the local repository before the remote API.
DeterminePrStrategy_GitFirst(c, api, git) ==
    IF c.CHANGE_DETECTION = "github_api"
    THEN IF api /\ Truthy(c.GITHUB_TOKEN) THEN Fixed("api") ELSE Fixed(None)
    ELSE IF c.CHANGE_DETECTION = "git"
    THEN IF git THEN AskRepo("git", None) ELSE Fixed(None)
    ELSE IF git
    THEN AskRepo("git", IF api /\ Truthy(c.GITHUB_TOKEN) THEN "api" ELSE None)
    ELSE IF api /\ Truthy(c.GITHUB_TOKEN) THEN Fixed("api")
    ELSE Fixed(None)

\* Variant: auto mode selects the remote API whenever a client object
\* exists, without looking at the token.
DeterminePrStrategy_AutoIgnoresToken(c, api, git) ==
    IF c.CHANGE_DETECTION = "github_api"
    THEN IF api /\ Truthy(c.GITHUB_TOKEN) THEN Fixed("api") ELSE Fixed(None)
    ELSE IF c.CHANGE_DETECTION = "git"
    THEN IF git THEN AskRepo("git", None) ELSE Fixed(None)
    ELSE IF api THEN Fixed("api")
    ELSE IF git THEN AskRepo("git", None)
    ELSE Fixed(None)

\* Variant: an explicit mode whose source is unavailable falls through to
\* the other source, as auto mode does.
DeterminePrStrategy_ExplicitFallsBack(c, api, git) ==
    IF api /\ Truthy(c.GITHUB_TOKEN) /\ c.CHANGE_DETECTION # "git"
    THEN Fixed("api")
    ELSE IF git
    THEN AskRepo("git", IF api /\ Truthy(c.GITHUB_TOKEN) THEN "api" ELSE None)
    ELSE IF api /\ Truthy(c.GITHUB_TOKEN) THEN Fixed("api")
    ELSE Fixed(None)

\* Lines 207-228.  `git_ops and git_ops.has_git_repo()` short-circuits: the
\* repository is asked only when a handler is present and the earlier
\* conditions did not decide.
DeterminePrStrategy(c, api, git) ==
    IF c.CHANGE_DETECTION = "github_api"
    THEN IF api /\ Truthy(c.GITHUB_TOKEN) THEN Fixed("api") ELSE Fixed(None)
    ELSE IF c.CHANGE_DETECTION = "git"
    THEN IF git THEN AskRepo("git", None) ELSE Fixed(None)
    ELSE IF api /\ Truthy(c.GITHUB_TOKEN) THEN Fixed("api")
    ELSE IF git THEN AskRepo("git", None)
    ELSE Fixed(None)

\* Lines 186-193: dispatch on the selected strategy.
Dispatch(s) ==
    /\ strategy' = s
    /\ IF s = "api" THEN pc' = "pr_api" /\ result' = result
       ELSE IF s = "git" THEN pc' = "pr_git" /\ result' = result
       ELSE Return(<<>>, EmptyCategorized)

\* _extract_pull_request() up to the dispatch.  has_git_repo() is called
\* outside any try block, so an exception it raises leaves extract().
ExtractPullRequest ==
    /\ pc = "pr"
    /\ LET plan == DeterminePrStrategy(config, github_api, git_ops)
       IN  IF plan.asks
           THEN \/ /\ repo = "error"
                   /\ calls' = Append(calls, CallRaise("has_git_repo", <<>>, 0))
                   /\ strategy' = strategy
                   /\ Propagate
                \/ /\ repo = "present"
                   /\ calls' = Append(calls, CallFlag("has_git_repo", TRUE))
                   /\ Dispatch(plan.yes)
                \/ /\ repo = "absent"
                   /\ calls' = Append(calls, CallFlag("has_git_repo", FALSE))
                   /\ Dispatch(plan.no)
           ELSE /\ calls' = calls
                /\ Dispatch(plan.yes)
    /\ UNCHANGED <<prfiles, self, worktree, trace, catops, config, github_api, git_ops, repo>>

\* Variant of GetPrNumber that reads the payload before GITHUB_REF.
GetPrNumber_PayloadFirst(c) ==
    IF c.pr_number # 0
    THEN c.pr_number
    ELSE IF Truthy(c.GITHUB_REF) /\ RefMatchesPull(c.GITHUB_REF)
    THEN RefPrNumber(c.GITHUB_REF)
    ELSE 0

\* ------------------------------------------------------ _get_pr_number()
\* Number from GITHUB_REF when it matches refs/pull/<n>/, else the truthy
\* pull_request.number of the payload, else 0 (None).
GetPrNumber(c) ==
    IF Truthy(c.GITHUB_REF) /\ RefMatchesPull(c.GITHUB_REF)
    THEN RefPrNumber(c.GITHUB_REF)
    ELSE c.pr_number

\* Variant of ExtractPrApi that turns to the local history when the API
\* call raises and a repository is there.
ExtractPrApi_FallsBackToGit ==
    /\ pc = "pr_api"
    /\ LET pr_number == GetPrNumber(config)
       IN  IF pr_number = 0
           THEN /\ calls' = calls
                /\ Return(<<>>, EmptyCategorized)
           ELSE \/ /\ calls' = Append(calls,
                          CallRaise("get_pr_files", <<REPOSITORY>>, pr_number))
                   /\ IF git_ops /\ repo = "present"
                      THEN pc' = "pr_git" /\ result' = result
                      ELSE Return(<<>>, EmptyCategorized)
                \/ \E files \in ApiFileLists :
                   /\ calls' = Append(calls,
                          CallFiles("get_pr_files", <<REPOSITORY>>, pr_number, files))
                   /\ Return(files, [added |-> <<>>, modified |-> files,
                                     removed |-> <<>>])
    /\ UNCHANGED <<prfiles, self, worktree, trace, catops, config, github_api, git_ops, repo, strategy>>

\* Variant of ExtractPrApi that files the API list under added.
ExtractPrApi_AsAdded ==
    /\ pc = "pr_api"
    /\ LET pr_number == GetPrNumber(config)
       IN  IF pr_number = 0
           THEN /\ calls' = calls
                /\ Return(<<>>, EmptyCategorized)
           ELSE \/ /\ calls' = Append(calls,
                          CallRaise("get_pr_files", <<REPOSITORY>>, pr_number))
                   /\ Return(<<>>, EmptyCategorized)
                \/ \E files \in ApiFileLists :
                   /\ calls' = Append(calls,
                          CallFiles("get_pr_files", <<REPOSITORY>>, pr_number, files))
                   /\ Return(files, [added |-> files, modified |-> <<>>,
                                     removed |-> <<>>])
    /\ UNCHANGED <<prfiles, self, worktree, trace, catops, config, github_api, git_ops, repo, strategy>>

\* ------------------------------------------------------ _extract_pr_api()
ExtractPrApi ==
    /\ pc = "pr_api"
    /\ LET pr_number == GetPrNumber(config)
       IN  IF pr_number = 0
           THEN /\ calls' = calls
                /\ Return(<<>>, EmptyCategorized)
           ELSE \/ /\ calls' = Append(calls,
                          CallRaise("get_pr_files", <<REPOSITORY>>, pr_number))
                   /\ Return(<<>>, EmptyCategorized)
                \/ \E files \in ApiFileLists :
                   /\ calls' = Append(calls,
                          CallFiles("get_pr_files", <<REPOSITORY>>, pr_number, files))
                   /\ Return(files, [added |-> <<>>, modified |-> files,
                                     removed |-> <<>>])
    /\ UNCHANGED <<prfiles, self, worktree, trace, catops, config, github_api, git_ops, repo, strategy>>

\* ------------------------------------------------------ _extract_pr_git()
\* f"origin/{base_ref}"
OriginRef(base_ref) == "origin/" \o base_ref

\* Lines 303-310: the base ref and the shallow check.
ExtractPrGit ==
    /\ pc = "pr_git"
    /\ IF ~Truthy(config.GITHUB_BASE_REF)
       THEN /\ calls' = calls
            /\ pc' = "fallback_head_parent"
            /\ result' = result
       ELSE \/ /\ calls' = Append(calls, CallRaise("is_shallow_clone", <<>>, 0))
               /\ Return(<<>>, EmptyCategorized)
            \/ /\ calls' = Append(calls, CallFlag("is_shallow_clone", TRUE))
               /\ pc' = "fetch_branch"
               /\ result' = result
            \/ /\ calls' = Append(calls, CallFlag("is_shallow_clone", FALSE))
               /\ pc' = "diff_branches"
               /\ result' = result
    /\ UNCHANGED <<prfiles, self, worktree, trace, catops, config, github_api, git_ops, repo, strategy>>

\* Variant of FetchBranch that deepens whether or not the fetch succeeded.
FetchBranch_AlwaysDeepens ==
    /\ pc = "fetch_branch"
    /\ LET args == <<OriginRef(config.GITHUB_BASE_REF)>>
       IN  \/ /\ calls' = Append(calls, CallVoid("fetch_branch", args, 1))
              /\ pc' = "deepen"
           \/ /\ calls' = Append(calls, CallRaise("fetch_branch", args, 1))
              /\ pc' = "deepen"
    /\ UNCHANGED <<prfiles, self, worktree, trace, catops, config, github_api, git_ops, repo, strategy, result>>

\* Lines 312-316: minimal fetch of the base branch.
FetchBranch ==
    /\ pc = "fetch_branch"
    /\ LET args == <<OriginRef(config.GITHUB_BASE_REF)>>
       IN  \/ /\ calls' = Append(calls, CallVoid("fetch_branch", args, 1))
              /\ pc' = "diff_branches"
           \/ /\ calls' = Append(calls, CallRaise("fetch_branch", args, 1))
              /\ pc' = "deepen"
    /\ UNCHANGED <<prfiles, self, worktree, trace, catops, config, github_api, git_ops, repo, strategy, result>>

\* Variant of Deepen in which a failing deepen ends the detection.
Deepen_AbortOnFailure ==
    /\ pc = "deepen"
    /\ \/ /\ calls' = Append(calls, CallVoid("deepen", <<>>, config.GIT_FETCH_DEPTH))
          /\ pc' = "diff_branches"
          /\ result' = result
       \/ /\ calls' = Append(calls, CallRaise("deepen", <<>>, config.GIT_FETCH_DEPTH))
          /\ Return(<<>>, EmptyCategorized)
    /\ UNCHANGED <<prfiles, self, worktree, trace, catops, config, github_api, git_ops, repo, strategy>>

\* Lines 317-320: deepen after the fetch failed; a failure is only logged.
Deepen ==
    /\ pc = "deepen"
    /\ \/ calls' = Append(calls, CallVoid("deepen", <<>>, config.GIT_FETCH_DEPTH))
       \/ calls' = Append(calls, CallRaise("deepen", <<>>, config.GIT_FETCH_DEPTH))
    /\ pc' = "diff_branches"
    /\ UNCHANGED <<prfiles, self, worktree, trace, catops, config, github_api, git_ops, repo, strategy, result>>

\* Variant of DiffBranches that returns the three-way diff as it is, empty
\* or not, without entering the fallback chain.
DiffBranches_NoFallback ==
    /\ pc = "diff_branches"
    /\ LET args == <<OriginRef(config.GITHUB_BASE_REF), "HEAD">>
       IN  \/ /\ calls' = Append(calls,
                     CallRaise("diff_branches_categorized", args, 0))
              /\ Return(<<>>, EmptyCategorized)
           \/ \E categorized \in CategorizedResults :
              /\ calls' = Append(calls,
                     CallCat("diff_branches_categorized", args, categorized))
              /\ Return(AllFiles(categorized), categorized)
    /\ UNCHANGED <<prfiles, self, worktree, trace, catops, config, github_api, git_ops, repo, strategy>>

\* Variant of DiffBranches in which an exception of the three-way diff
\* leads into the fallback chain.
DiffBranches_RaiseFallsBack ==
    /\ pc = "diff_branches"
    /\ LET args == <<OriginRef(config.GITHUB_BASE_REF), "HEAD">>
       IN  \/ /\ calls' = Append(calls,
                     CallRaise("diff_branches_categorized", args, 0))
              /\ pc' = "fallback_head_parent" /\ result' = result
           \/ \E categorized \in CategorizedResults :
              /\ calls' = Append(calls,
                     CallCat("diff_branches_categorized", args, categorized))
              /\ IF AllFiles(categorized) # <<>>
                 THEN Return(AllFiles(categorized), categorized)
                 ELSE pc' = "fallback_head_parent" /\ result' = result
    /\ UNCHANGED <<prfiles, self, worktree, trace, catops, config, github_api, git_ops, repo, strategy>>

\* Variant of DiffBranches that calls the three-way diff a second time
\* when the first call raised.
DiffBranches_RetriesOnce ==
    /\ pc = "diff_branches"
    /\ LET args == <<OriginRef(config.GITHUB_BASE_REF), "HEAD">>
       IN  \/ /\ calls' = Append(calls,
                     CallRaise("diff_branches_categorized", args, 0))
              /\ IF \E i \in 1..Len(calls) :
                        calls[i].op = "diff_branches_categorized"
                 THEN Return(<<>>, EmptyCategorized)
                 ELSE pc' = pc /\ result' = result
           \/ \E categorized \in CategorizedResults :
              /\ calls' = Append(calls,
                     CallCat("diff_branches_categorized", args, categorized))
              /\ IF AllFiles(categorized) # <<>>
                 THEN Return(AllFiles(categorized), categorized)
                 ELSE pc' = "fallback_head_parent" /\ result' = result
    /\ UNCHANGED <<prfiles, self, worktree, trace, catops, config, github_api, git_ops, repo, strategy>>

\* Lines 322-336: three-way diff against the base branch.
DiffBranches ==
    /\ pc = "diff_branches"
    /\ LET args == <<OriginRef(config.GITHUB_BASE_REF), "HEAD">>
       IN  \/ /\ calls' = Append(calls,
                     CallRaise("diff_branches_categorized", args, 0))
              /\ Return(<<>>, EmptyCategorized)
           \/ \E categorized \in CategorizedResults :
              /\ calls' = Append(calls,
                     CallCat("diff_branches_categorized", args, categorized))
              /\ IF AllFiles(categorized) # <<>>
                 THEN Return(AllFiles(categorized), categorized)
                 ELSE pc' = "fallback_head_parent" /\ result' = result
    /\ UNCHANGED <<prfiles, self, worktree, trace, catops, config, github_api, git_ops, repo, strategy>>

\* Variant of FallbackHeadParent in which an exception of the first
\* strategy ends the chain.
FallbackHeadParent_AbortOnRaise ==
    /\ pc = "fallback_head_parent"
    /\ LET args == <<"HEAD^1", "HEAD">>
       IN  \/ /\ calls' = Append(calls,
                     CallRaise("diff_commits_categorized", args, 0))
              /\ Return(<<>>, EmptyCategorized)
           \/ \E categorized \in CategorizedResults :
              /\ calls' = Append(calls,
                     CallCat("diff_commits_categorized", args, categorized))
              /\ IF AllFiles(categorized) # <<>>
                 THEN Return(AllFiles(categorized), categorized)
                 ELSE pc' = "fallback_diff_tree" /\ result' = result
    /\ UNCHANGED <<prfiles, self, worktree, trace, catops, config, github_api, git_ops, repo, strategy>>

\* --------------------------------------------- _extract_pr_git_fallback()
\* First strategy of the loop: diff_commits_categorized("HEAD^1", "HEAD").
FallbackHeadParent ==
    /\ pc = "fallback_head_parent"
    /\ LET args == <<"HEAD^1", "HEAD">>
       IN  \/ /\ calls' = Append(calls,
                     CallRaise("diff_commits_categorized", args, 0))
              /\ pc' = "fallback_diff_tree"
              /\ result' = result
           \/ \E categorized \in CategorizedResults :
              /\ calls' = Append(calls,
                     CallCat("diff_commits_categorized", args, categorized))
              /\ IF AllFiles(categorized) # <<>>
                 THEN Return(AllFiles(categorized), categorized)
                 ELSE pc' = "fallback_diff_tree" /\ result' = result
    /\ UNCHANGED <<prfiles, self, worktree, trace, catops, config, github_api, git_ops, repo, strategy>>

\* Variant of FallbackDiffTree whose last strategy is not guarded: an
\* exception of get_commit_files_categorized leaves extract().
FallbackDiffTree_Unguarded ==
    /\ pc = "fallback_diff_tree"
    /\ LET args == <<"HEAD">>
       IN  \/ /\ calls' = Append(calls,
                     CallRaise("get_commit_files_categorized", args, 0))
              /\ Propagate
           \/ \E categorized \in CategorizedResults :
              /\ calls' = Append(calls,
                     CallCat("get_commit_files_categorized", args, categorized))
              /\ IF AllFiles(categorized) # <<>>
                 THEN Return(AllFiles(categorized), categorized)
                 ELSE Return(<<>>, EmptyCategorized)
    /\ UNCHANGED <<prfiles, self, worktree, trace, catops, config, github_api, git_ops, repo, strategy>>

\* Second strategy: get_commit_files_categorized("HEAD"); after it the loop
\* is exhausted and the empty result is returned.
FallbackDiffTree ==
    /\ pc = "fallback_diff_tree"
    /\ LET args == <<"HEAD">>
       IN  \/ /\ calls' = Append(calls,
                     CallRaise("get_commit_files_categorized", args, 0))
              /\ Return(<<>>, EmptyCategorized)
           \/ \E categorized \in CategorizedResults :
              /\ calls' = Append(calls,
                     CallCat("get_commit_files_categorized", args, categorized))
              /\ IF AllFiles(categorized) # <<>>
                 THEN Return(AllFiles(categorized), categorized)
                 ELSE Return(<<>>, EmptyCategorized)
    /\ UNCHANGED <<prfiles, self, worktree, trace, catops, config, github_api, git_ops, repo, strategy>>

\* ------------------------------ ChangedFilesLastCommitExtractor.extract()
\* State after constructing the last-commit extractor: it has a config and
\* an optional GitOperations handler, and no API client.
InitLastCommit ==
    /\ config \in Configs
    /\ github_api = FALSE
    /\ git_ops \in BOOLEAN
    /\ repo \in {"present", "absent", "error"}
    /\ pc = "last_commit"
    /\ strategy = None
    /\ calls = <<>>
    /\ result = NoResult
    /\ catops = CatIdle
    /\ OpsUnused
    /\ prfiles = ApiIdle

\* Variant of LastCommitGuard that does not ask has_git_repo().
LastCommitGuard_IgnoresRepo ==
    /\ pc = "last_commit"
    /\ IF ~git_ops
       THEN /\ Return(<<>>, EmptyCategorized)
            /\ calls' = calls
       ELSE /\ calls' = calls
            /\ pc' = "last_commit_diff"
            /\ result' = result
    /\ UNCHANGED <<prfiles, self, worktree, trace, catops, config, github_api, git_ops, repo, strategy>>

\* Lines 54-62: guard on the repository; has_git_repo() is outside the try.
LastCommitGuard ==
    /\ pc = "last_commit"
    /\ IF ~git_ops
       THEN /\ Return(<<>>, EmptyCategorized)
            /\ calls' = calls
       ELSE \/ /\ repo = "error"
               /\ calls' = Append(calls, CallRaise("has_git_repo", <<>>, 0))
               /\ Propagate
            \/ /\ repo = "absent"
               /\ calls' = Append(calls, CallFlag("has_git_repo", FALSE))
               /\ Return(<<>>, EmptyCategorized)
            \/ /\ repo = "present"
               /\ calls' = Append(calls, CallFlag("has_git_repo", TRUE))
               /\ pc' = "last_commit_diff"
               /\ result' = result
    /\ UNCHANGED <<prfiles, self, worktree, trace, catops, config, github_api, git_ops, repo, strategy>>

\* Variant of LastCommitFiles that only concatenates the three lists.
LastCommitFiles_Concatenated(categorized) == AllFiles(categorized)

\* Line 73: files = sorted(set(added + modified + removed)).
LastCommitFiles(categorized) == SortedSet(Range(AllFiles(categorized)))

\* Lines 64-100: the single-commit diff of HEAD, inside the try block.
LastCommitExtract ==
    /\ pc = "last_commit_diff"
    /\ \/ /\ calls' = Append(calls,
                 CallRaise("get_commit_files_categorized", <<"HEAD">>, 0))
          /\ Return(<<>>, EmptyCategorized)
       \/ \E categorized \in CategorizedResults :
          /\ calls' = Append(calls,
                 CallCat("get_commit_files_categorized", <<"HEAD">>, categorized))
          /\ Return(LastCommitFiles(categorized), categorized)
    /\ UNCHANGED <<prfiles, self, worktree, trace, catops, config, github_api, git_ops, repo, strategy>>

NextLastCommit ==
    \/ LastCommitGuard
    \/ LastCommitExtract

SpecLastCommit == InitLastCommit /\ [][NextLastCommit]_vars

\* ------------------------------ GitOperations categorized diff operations
\* The paths one loop files under `category`: `buckets` holds, for every
\* diff record, the pair <<category, path>> the loop body appends, with
\* NoPath when it appends nothing.
Filed(buckets, category) ==
    { b[2] : b \in { x \in buckets : x[1] = category /\ x[2] # NoPath } }

\* sorted(set(added)), sorted(set(modified)), sorted(set(removed)).
SortedCategories(buckets) ==
    [added    |-> SortedSet(Filed(buckets, "added")),
     modified |-> SortedSet(Filed(buckets, "modified")),
     removed  |-> SortedSet(Filed(buckets, "removed"))]

\* Variant of CommitBucket that files a renamed file under its old path.
CommitBucket_RenameOldPath(d) ==
    IF d.new_file THEN <<"added", d.b_path>>
    ELSE IF d.deleted_file THEN <<"removed", d.a_path>>
    ELSE IF d.renamed_file THEN <<"modified", d.a_path>>
    ELSE IF d.b_path # NoPath THEN <<"modified", d.b_path>>
    ELSE <<"modified", d.a_path>>

\* get_commit_files_categorized, loop body of lines 342-360.
CommitBucket(d) ==
    IF d.new_file THEN <<"added", d.b_path>>
    ELSE IF d.deleted_file THEN <<"removed", d.a_path>>
    ELSE IF d.renamed_file THEN <<"modified", d.b_path>>
    ELSE IF d.b_path # NoPath THEN <<"modified", d.b_path>>
    ELSE <<"modified", d.a_path>>

\* diff_commits_categorized, loop body of lines 398-416.
RangeBucket(d) ==
    IF d.new_file THEN <<"added", d.b_path>>
    ELSE IF d.deleted_file THEN <<"removed", d.a_path>>
    ELSE IF d.renamed_file THEN <<"modified", d.b_path>>
    ELSE IF d.b_path # NoPath THEN <<"modified", d.b_path>>
    ELSE <<"modified", d.a_path>>

\* Variant of BranchesBucket that files a renamed file under its old path.
BranchesBucket_RenameOldPath(d) ==
    IF d.new_file THEN <<"added", d.b_path>>
    ELSE IF d.deleted_file THEN <<"removed", d.a_path>>
    ELSE IF d.renamed_file THEN <<"modified", d.a_path>>
    ELSE IF d.b_path # NoPath THEN <<"modified", d.b_path>>
    ELSE <<"modified", d.a_path>>

\* diff_branches_categorized, loop body of lines 473-491.
BranchesBucket(d) ==
    IF d.new_file THEN <<"added", d.b_path>>
    ELSE IF d.deleted_file THEN <<"removed", d.a_path>>
    ELSE IF d.renamed_file THEN <<"modified", d.b_path>>
    ELSE IF d.b_path # NoPath THEN <<"modified", d.b_path>>
    ELSE <<"modified", d.a_path>>

\* Variant of TraversePaths that keeps only the blobs of the tree.
TraversePaths_BlobsOnly(tree) == { p \in Paths : tree[p] = "blob" }

\* Line 331: the paths of all items commit.tree.traverse() yields.
TraversePaths(tree) == { p \in Paths : tree[p] # "absent" }

\* get_commit_files_categorized(sha), lines 321-370.
GetCommitFilesCategorized(input) ==
    IF input.kind \in {"no_repo", "git_error"} THEN EmptyCategorized
    ELSE IF input.kind = "root"
    THEN [added |-> SortedSet(TraversePaths(input.tree)),
          modified |-> <<>>, removed |-> <<>>]
    ELSE SortedCategories({ CommitBucket(d) : d \in input.diffs })

\* diff_commits_categorized(from_sha, to_sha), lines 383-426.
DiffCommitsCategorized(input) ==
    IF input.kind \in {"no_repo", "git_error"} THEN EmptyCategorized
    ELSE SortedCategories({ RangeBucket(d) : d \in input.diffs })

\* diff_branches_categorized(base, head), lines 441-501, for the diff
\* records between the commit it diffs from (merge base or base) and head.
DiffBranchesCategorized(input) ==
    IF input.kind \in {"no_repo", "git_error"} THEN EmptyCategorized
    ELSE SortedCategories({ BranchesBucket(d) : d \in input.diffs })

InitCat ==
    /\ config = CHOOSE c \in Configs : c.GITHUB_EVENT_NAME = "push"
    /\ github_api = FALSE
    /\ git_ops = TRUE
    /\ repo = "present"
    /\ pc = "done"
    /\ strategy = None
    /\ calls = <<>>
    /\ result = NoResult
    /\ \E input \in CatInputs :
          catops = [input |-> input, commit |-> NotRun,
                 range |-> NotRun, branches |-> NotRun]
    /\ OpsUnused
    /\ prfiles = ApiIdle

EngineIdle == UNCHANGED <<config, github_api, git_ops, repo, pc, strategy,
                          calls, result, self, worktree, trace, prfiles>>

\* One call of get_commit_files_categorized.
CatGetCommitFiles ==
    /\ ~catops.commit.ran
    /\ catops' = [catops EXCEPT !.commit = Ran(GetCommitFilesCategorized(catops.input))]
    /\ EngineIdle

\* One call of diff_commits_categorized (it needs two commits).
CatDiffCommits ==
    /\ ~catops.range.ran
    /\ catops.input.kind # "root"
    /\ catops' = [catops EXCEPT !.range = Ran(DiffCommitsCategorized(catops.input))]
    /\ EngineIdle

\* One call of diff_branches_categorized (it needs two commits).
CatDiffBranches ==
    /\ ~catops.branches.ran
    /\ catops.input.kind # "root"
    /\ catops' = [catops EXCEPT !.branches = Ran(DiffBranchesCategorized(catops.input))]
    /\ EngineIdle

NextCat ==
    \/ CatGetCommitFiles
    \/ CatDiffCommits
    \/ CatDiffBranches

SpecCat == InitCat /\ [][NextCat]_vars

\* ------------------------- GitOperations: three-way against two-way diff
\* Diffs of at most one record.
SingleDiffs == SubsetsUpTo(DiffRecords, 1)

\* A base and a head for diff_branches_categorized: the merge base the
\* primitive finds (None when there is none), the diff records between
\* base and head, and those between the merge base and head.
BranchInputs ==
    { [kind |-> "branches", merge_base |-> None, diffs |-> ds, mb_diffs |-> {}] :
        ds \in SingleDiffs }
    \cup { [kind |-> "branches", merge_base |-> "m41n", diffs |-> ds, mb_diffs |-> ms] :
        ds \in SingleDiffs, ms \in SingleDiffs }

\* The commit pair whose diff records are `diffs`.
CommitPair(diffs) == [kind |-> "diff", tree |-> NoTree, diffs |-> diffs]

\* Variant of MergeBaseDiffRecords that always diffs base against head.
MergeBaseDiffRecords_AlwaysTwoDot(input) == input.diffs

\* Lines 461-467: base_commit.diff(head_commit) when there is no merge
\* base, merge_base.diff(head_commit) otherwise.
MergeBaseDiffRecords(input) ==
    IF input.merge_base = None THEN input.diffs ELSE input.mb_diffs

InitBranches ==
    /\ config = CHOOSE c \in Configs : c.GITHUB_EVENT_NAME = "pull_request"
    /\ github_api = FALSE
    /\ git_ops = TRUE
    /\ repo = "present"
    /\ pc = "done"
    /\ strategy = None
    /\ calls = <<>>
    /\ result = NoResult
    /\ OpsUnused
    /\ prfiles = ApiIdle
    /\ \E input \in BranchInputs :
          catops = [input |-> input, branches |-> NotRun,
                    range |-> NotRun, range_mb |-> NotRun]

\* diff_branches_categorized(base, head).
BrDiffBranches ==
    /\ ~catops.branches.ran
    /\ catops' = [catops EXCEPT !.branches =
          Ran(DiffBranchesCategorized(
                CommitPair(MergeBaseDiffRecords(catops.input))))]
    /\ EngineIdle

\* diff_commits_categorized(base, head).
BrDiffCommitsBase ==
    /\ ~catops.range.ran
    /\ catops' = [catops EXCEPT !.range =
          Ran(DiffCommitsCategorized(CommitPair(catops.input.diffs)))]
    /\ EngineIdle

\* diff_commits_categorized(M, head) for the merge base M.
BrDiffCommitsMergeBase ==
    /\ ~catops.range_mb.ran
    /\ catops.input.merge_base # None
    /\ catops' = [catops EXCEPT !.range_mb =
          Ran(DiffCommitsCategorized(CommitPair(catops.input.mb_diffs)))]
    /\ EngineIdle

NextBranches ==
    \/ BrDiffBranches
    \/ BrDiffCommitsBase
    \/ BrDiffCommitsMergeBase

SpecBranches == InitBranches /\ [][NextBranches]_vars

\* ------------------- the fallback chain over one GitOperations repository
\* _extract_pr_git_fallback() is entered on a pull request in mode git
\* without base ref, after has_git_repo() returned True; catops.input is
\* the repository at HEAD: a root commit, a commit with the diff records
\* against its first parent, or a repository whose git commands fail.
InitFallback ==
    /\ config = CHOOSE c \in Configs :
          /\ c.GITHUB_EVENT_NAME = "pull_request"
          /\ c.CHANGE_DETECTION = "git"
          /\ c.GITHUB_BASE_REF = ""
    /\ github_api = FALSE
    /\ git_ops = TRUE
    /\ repo = "present"
    /\ pc = "fallback_head_parent"
    /\ strategy = "git"
    /\ calls = <<CallFlag("has_git_repo", TRUE)>>
    /\ result = NoResult
    /\ OpsUnused
    /\ prfiles = ApiIdle
    /\ \E input \in { i \in CatInputs : i.kind # "no_repo" } :
          catops = [input |-> input, commit |-> NotRun,
                    range |-> NotRun, branches |-> NotRun]

\* The call made in this step is answered by GitOperations on the
\* repository catops.input.  With a root commit at HEAD,
\* repo.commit("HEAD^1") raises BadName, which diff_commits_categorized
\* does not catch (line 424).
RepositoryAnswers ==
    LET c == calls'[Len(calls')]
    IN  /\ Len(calls') = Len(calls) + 1
        /\ c.op = "diff_commits_categorized" =>
              IF catops.input.kind = "root"
              THEN c.raised
              ELSE ~c.raised /\ c.cat = DiffCommitsCategorized(catops.input)
        /\ c.op = "get_commit_files_categorized" =>
              ~c.raised /\ c.cat = GetCommitFilesCategorized(catops.input)

NextFallback ==
    \/ FallbackHeadParent /\ RepositoryAnswers
    \/ FallbackDiffTree /\ RepositoryAnswers

SpecFallback == InitFallback /\ [][NextFallback]_vars

\* ------------------------------------ GitOperations: caches of an instance
Inc(n) == IF n < MaxCalls THEN n + 1 ELSE n

\* has_git_repo(), lines 60-66.
HasGitRepo(s, wt) ==
    IF s._has_git = None
    THEN [self |-> [s EXCEPT !._has_git = PyBool(wt.dot_git)],
          value |-> wt.dot_git, inspected |-> TRUE]
    ELSE [self |-> s, value |-> (s._has_git = "True"), inspected |-> FALSE]

\* The repo property, lines 44-51: Repo(repo_path) raises
\* InvalidGitRepositoryError or NoSuchPathError when .git is gone.
RepoProperty(s, wt) ==
    IF s._repo # None
    THEN [self |-> s, value |-> TRUE, inspected |-> FALSE]
    ELSE LET h == HasGitRepo(s, wt)
         IN  IF h.value /\ wt.dot_git
             THEN [self |-> [h.self EXCEPT !._repo = "Repo"],
                   value |-> TRUE, inspected |-> h.inspected]
             ELSE [self |-> h.self, value |-> FALSE,
                   inspected |-> h.inspected]

\* Variant of IsShallowClone that looks at the repository on every call.
IsShallowClone_NoCache(s, wt, fails) ==
    LET h == HasGitRepo(s, wt)
    IN  IF ~h.value
        THEN [self |-> [h.self EXCEPT !._is_shallow = "False"],
              value |-> FALSE, inspected |-> FALSE, git |-> h.inspected,
              failed |-> FALSE]
        ELSE LET found == ~fails /\ wt.dot_git /\ wt.shallow
             IN  [self |-> [h.self EXCEPT !._is_shallow = PyBool(found)],
                  value |-> found, inspected |-> TRUE, git |-> h.inspected,
                  failed |-> fails]

\* is_shallow_clone(), lines 75-93; `fails` is shallow_file.exists()
\* raising.  `inspected`: .git/shallow was looked at; `git`: .git was.
IsShallowClone(s, wt, fails) ==
    IF s._is_shallow # None
    THEN [self |-> s, value |-> (s._is_shallow = "True"),
          inspected |-> FALSE, git |-> FALSE, failed |-> FALSE]
    ELSE LET h == HasGitRepo(s, wt)
         IN  IF ~h.value
             THEN [self |-> [h.self EXCEPT !._is_shallow = "False"],
                   value |-> FALSE, inspected |-> FALSE, git |-> h.inspected,
                   failed |-> FALSE]
             ELSE LET found == ~fails /\ wt.dot_git /\ wt.shallow
                  IN  [self |-> [h.self EXCEPT !._is_shallow = PyBool(found)],
                       value |-> found, inspected |-> TRUE,
                       git |-> h.inspected, failed |-> fails]

\* Variant of MergeBaseStep that treats a cached None as a miss.
MergeBaseStep_ForgetsNone(s, wt, pair, fails) ==
    IF s._merge_base_cache[pair] \notin {NotCached, None}
    THEN [self |-> s, prim |-> FALSE, raised |-> FALSE,
          value |-> s._merge_base_cache[pair]]
    ELSE IF fails
    THEN [self |-> s, prim |-> TRUE, raised |-> TRUE, value |-> None]
    ELSE [self |-> [s EXCEPT !._merge_base_cache[pair] = MergeBase(wt, pair)],
          prim |-> TRUE, raised |-> FALSE, value |-> MergeBase(wt, pair)]

\* diff_branches_categorized, lines 450-459: the merge base from the cache
\* or from the primitive; `fails` is the primitive raising GitCommandError.
MergeBaseStep(s, wt, pair, fails) ==
    IF s._merge_base_cache[pair] # NotCached
    THEN [self |-> s, prim |-> FALSE, raised |-> FALSE,
          value |-> s._merge_base_cache[pair]]
    ELSE IF fails
    THEN [self |-> s, prim |-> TRUE, raised |-> TRUE, value |-> None]
    ELSE [self |-> [s EXCEPT !._merge_base_cache[pair] = MergeBase(wt, pair)],
          prim |-> TRUE, raised |-> FALSE, value |-> MergeBase(wt, pair)]

\* Lines 537-539 and 568-570.
InvalidateCaches(s) ==
    [s EXCEPT !._is_shallow = None,
              !._merge_base_cache = [pair \in BranchPairs |-> NotCached]]

\* A successful fetch starts a new window of counted calls.
NewWindow ==
    [NoTrace EXCEPT !.git_inspections = trace.git_inspections,
                    !.git_answer = trace.git_answer,
                    !.after_attempt = TRUE, !.after_success = TRUE]

InitOps ==
    /\ config = CHOOSE c \in Configs : c.GITHUB_EVENT_NAME = "push"
    /\ github_api = FALSE
    /\ git_ops = TRUE
    /\ repo = "present"
    /\ pc = "done"
    /\ strategy = None
    /\ calls = <<>>
    /\ result = NoResult
    /\ catops = CatIdle
    /\ self = NewGitOperations
    /\ worktree \in Worktrees
    /\ trace = NoTrace
    /\ prfiles = ApiIdle

OthersIdle == UNCHANGED <<config, github_api, git_ops, repo, pc, strategy,
                          calls, result, catops, prfiles>>

\* One call of has_git_repo().
OpsHasGitRepo ==
    LET h == HasGitRepo(self, worktree)
    IN  /\ self' = h.self
        /\ trace' = [trace EXCEPT
              !.git_inspections = IF h.inspected THEN Inc(@) ELSE @,
              !.git_answer = IF @ = None THEN PyBool(h.value) ELSE @,
              !.last = [NoOp EXCEPT !.op = "has_git_repo",
                                    !.inspected = h.inspected,
                                    !.ret = PyBool(h.value)]]
        /\ UNCHANGED worktree
        /\ OthersIdle

\* One call of is_shallow_clone().
OpsIsShallowClone ==
    /\ trace.shallow_calls < MaxCalls
    /\ \E fails \in BOOLEAN :
          LET r == IsShallowClone(self, worktree, fails)
          IN  /\ self' = r.self
              /\ trace' = [trace EXCEPT
                    !.shallow_calls = @ + 1,
                    !.shallow_inspections = IF r.inspected THEN @ + 1 ELSE @,
                    !.git_inspections = IF r.git THEN Inc(@) ELSE @,
                    !.git_answer = IF r.git THEN r.self._has_git ELSE @,
                    !.shallow_answer =
                        IF trace.shallow_calls = 0 THEN PyBool(r.value) ELSE @,
                    !.shallow_failed = IF r.inspected THEN r.failed ELSE @,
                    !.after_attempt = FALSE,
                    !.after_success = FALSE,
                    !.last = [NoOp EXCEPT
                        !.op = "is_shallow_clone",
                        !.inspected = r.inspected \/ r.git,
                        !.ret = PyBool(r.value),
                        !.after_attempt = trace.after_attempt,
                        !.after_success = trace.after_success]]
    /\ UNCHANGED worktree
    /\ OthersIdle

\* What a call that went through the repo property adds to the trace.
Inspected(tr, r) ==
    [tr EXCEPT !.git_inspections = IF r.inspected THEN Inc(@) ELSE @,
               !.git_answer = IF r.inspected THEN r.self._has_git ELSE @]

\* One call of diff_branches_categorized(base, head), lines 441-501, as far
\* as the merge base it diffs from; `outcome` says whether repo.commit()
\* or the merge-base primitive raises.
OpsDiffBranchesCategorized ==
    \E pair \in BranchPairs, outcome \in {"ok", "lookup_error", "merge_base_error"} :
        /\ trace.calls[pair] < MaxCalls
        /\ LET r == RepoProperty(self, worktree)
               m == MergeBaseStep(r.self, worktree, pair,
                                  outcome = "merge_base_error")
               reached == r.value /\ outcome # "lookup_error"
               done == [NoOp EXCEPT !.op = "diff_branches_categorized",
                                    !.pair = pair,
                                    !.inspected = r.inspected]
           IN  IF ~reached
               THEN /\ self' = r.self
                    /\ trace' = [Inspected(trace, r) EXCEPT
                          !.calls[pair] = @ + 1,
                          !.last = done]
               ELSE /\ self' = m.self
                    /\ trace' = [Inspected(trace, r) EXCEPT
                          !.calls[pair] = @ + 1,
                          !.reached[pair] = @ + 1,
                          !.prims[pair] = IF m.prim THEN @ + 1 ELSE @,
                          !.raised[pair] = IF m.raised THEN @ + 1 ELSE @,
                          !.last = [done EXCEPT !.reached = TRUE,
                                                !.prim = m.prim,
                                                !.ret = m.value]]
        /\ UNCHANGED worktree
        /\ OthersIdle

\* Variant of OpsFetchBranch that keeps both caches after a fetch.
OpsFetchBranch_KeepsCaches ==
    \E branch \in {"origin/main", "origin/dev"},
       outcome \in {"ok", "GitError", "ValueError"} :
        LET r == RepoProperty(self, worktree)
            done == [NoOp EXCEPT !.op = "fetch_branch", !.pair = <<branch>>,
                                 !.inspected = r.inspected]
        IN  IF ~r.value \/ outcome # "ok"
            THEN /\ self' = r.self
                 /\ trace' = [Inspected(trace, r) EXCEPT
                       !.after_attempt = TRUE,
                       !.last = [done EXCEPT
                           !.raised = TRUE,
                           !.error = IF r.value /\ outcome = "ValueError"
                                     THEN "ValueError"
                                     ELSE "GitOperationError"]]
                 /\ UNCHANGED worktree
                 /\ OthersIdle
            ELSE /\ self' = r.self
                 /\ \E h \in worktree.history..MaxHistory, sh \in BOOLEAN :
                       worktree' = [worktree EXCEPT !.history = h,
                                                    !.shallow = sh]
                 /\ trace' = [Inspected(NewWindow, r) EXCEPT !.last = done]
                 /\ OthersIdle

\* One call of fetch_branch(branch, depth), lines 514-546.  The fetch may
\* raise a GitError, which line 546 turns into GitOperationError, and
\* self.repo.remote("origin") raises ValueError when the repository has no
\* remote of that name, which `except GitError` does not catch.  A fetch
\* that succeeds may bring more history and may leave the clone shallow
\* or not.
OpsFetchBranch ==
    \E branch \in {"origin/main", "origin/dev"},
       outcome \in {"ok", "GitError", "ValueError"} :
        LET r == RepoProperty(self, worktree)
            done == [NoOp EXCEPT !.op = "fetch_branch", !.pair = <<branch>>,
                                 !.inspected = r.inspected]
        IN  IF ~r.value \/ outcome # "ok"
            THEN /\ self' = r.self
                 /\ trace' = [Inspected(trace, r) EXCEPT
                       !.after_attempt = TRUE,
                       !.last = [done EXCEPT
                           !.raised = TRUE,
                           !.error = IF r.value /\ outcome = "ValueError"
                                     THEN "ValueError"
                                     ELSE "GitOperationError"]]
                 /\ UNCHANGED worktree
                 /\ OthersIdle
            ELSE /\ self' = InvalidateCaches(r.self)
                 /\ \E h \in worktree.history..MaxHistory, sh \in BOOLEAN :
                       worktree' = [worktree EXCEPT !.history = h,
                                                    !.shallow = sh]
                 /\ trace' = [Inspected(NewWindow, r) EXCEPT !.last = done]
                 /\ OthersIdle

\* One call of deepen(depth), lines 558-577; `fails` is git fetch
\* --deepen raising GitCommandError.  Deepening never makes a clone
\* shallow.
OpsDeepen ==
    \E fails \in BOOLEAN :
        LET r == RepoProperty(self, worktree)
            done == [NoOp EXCEPT !.op = "deepen", !.inspected = r.inspected]
        IN  IF ~r.value \/ fails
            THEN /\ self' = r.self
                 /\ trace' = [Inspected(trace, r) EXCEPT
                       !.after_attempt = TRUE,
                       !.last = [done EXCEPT !.raised = TRUE,
                                             !.error = "GitOperationError"]]
                 /\ UNCHANGED worktree
                 /\ OthersIdle
            ELSE /\ self' = InvalidateCaches(r.self)
                 /\ \E h \in worktree.history..MaxHistory,
                       sh \in {worktree.shallow, FALSE} :
                       worktree' = [worktree EXCEPT !.history = h,
                                                    !.shallow = sh]
                 /\ trace' = [Inspected(NewWindow, r) EXCEPT !.last = done]
                 /\ OthersIdle

\* Something other than this instance changes the repository on disk:
\* .git appears or goes away, the clone becomes shallow or complete.
WorktreeChanges ==
    /\ \E dg \in BOOLEAN, sh \in BOOLEAN :
          /\ <<dg, sh>> # <<worktree.dot_git, worktree.shallow>>
          /\ worktree' = [worktree EXCEPT !.dot_git = dg, !.shallow = sh]
    /\ UNCHANGED <<self, trace>>
    /\ OthersIdle

\* The instance on a repository nothing else touches.
NextQuiet ==
    \/ OpsHasGitRepo
    \/ OpsIsShallowClone
    \/ OpsDiffBranchesCategorized
    \/ OpsFetchBranch
    \/ OpsDeepen

SpecQuiet == InitOps /\ [][NextQuiet]_vars

NextOps ==
    \/ OpsHasGitRepo
    \/ OpsIsShallowClone
    \/ OpsDiffBranchesCategorized
    \/ OpsFetchBranch
    \/ OpsDeepen
    \/ WorktreeChanges

SpecOps == InitOps /\ [][NextOps]_vars

\* ------------------------------------------- GitHubAPI.get_pr_files()
\* A call get_pr_files(repo_name, pr_number, max_files) about to start:
\* the listing is what pr.get_files() will yield, max_files is the
\* argument, MAX_PR_FILES when it is left out.
InitApi ==
    /\ config = CHOOSE c \in Configs : c.GITHUB_EVENT_NAME = "pull_request"
    /\ github_api = TRUE
    /\ git_ops = FALSE
    /\ repo = "absent"
    /\ pc = "done"
    /\ strategy = None
    /\ calls = <<>>
    /\ result = NoResult
    /\ catops = CatIdle
    /\ OpsUnused
    /\ \E listing \in SeqsUpTo(Paths, MaxListed),
          max_files \in (0..MaxCap) \cup {MAX_PR_FILES} :
          prfiles = [pc |-> "start", listing |-> listing,
                     max_files |-> max_files, files |-> <<>>, pos |-> 0]

ApiOthersIdle == UNCHANGED <<config, github_api, git_ops, repo, pc, strategy,
                             calls, result, catops, self, worktree, trace>>

\* Lines 89-92: the repository and the pull request are looked up; a
\* GithubException is logged and raised again (lines 103-105).
ApiGetPull ==
    /\ prfiles.pc = "start"
    /\ \/ prfiles' = [prfiles EXCEPT !.pc = "raised"]
       \/ prfiles' = [prfiles EXCEPT !.pc = "loop", !.files = <<>>]
    /\ ApiOthersIdle

\* Lines 93-99, one iteration: the next file name is appended, then the
\* length is compared with max_files; fetching the next page may raise.
ApiNextFile ==
    /\ prfiles.pc = "loop"
    /\ prfiles.pos < Len(prfiles.listing)
    /\ \/ prfiles' = [prfiles EXCEPT !.pc = "raised"]
       \/ LET files == Append(prfiles.files, prfiles.listing[prfiles.pos + 1])
          IN  prfiles' = [prfiles EXCEPT
                !.files = files,
                !.pos = @ + 1,
                !.pc = IF Len(files) >= prfiles.max_files
                       THEN "break" ELSE "loop"]
    /\ ApiOthersIdle

\* Lines 101-102: after the break or the end of the listing, return files.
ApiReturn ==
    /\ \/ prfiles.pc = "break"
       \/ prfiles.pc = "loop" /\ prfiles.pos = Len(prfiles.listing)
    /\ prfiles' = [prfiles EXCEPT !.pc = "returned"]
    /\ ApiOthersIdle

NextApi ==
    \/ ApiGetPull
    \/ ApiNextFile
    \/ ApiReturn

SpecApi == InitApi /\ [][NextApi]_vars

\* ---------------------------------------------------------- specification
Next ==
    \/ Extract
    \/ ExtractPushEventGuard
    \/ ExtractPushEvent
    \/ ExtractPullRequest
    \/ ExtractPrApi
    \/ ExtractPrGit
    \/ FetchBranch
    \/ Deepen
    \/ DiffBranches
    \/ FallbackHeadParent
    \/ FallbackDiffTree

Spec == Init /\ [][Next]_vars

\* extract() is one sequential call: a step that can be taken is taken.
FairSpec == Spec /\ WF_vars(Next)

TypeOK ==
    /\ config \in Configs
    /\ pc \in {"extract", "push", "push_diff", "pr", "pr_api", "pr_git",
               "fetch_branch", "deepen", "diff_branches",
               "fallback_head_parent", "fallback_diff_tree", "done",
               "last_commit", "last_commit_diff"}
    /\ strategy \in {None, "api", "git"}
    /\ result.status \in {"none", "returned", "raised"}

\* ------------------------------------------------------ call-log queries
CallIndices(op) == { i \in 1..Len(calls) : calls[i].op = op }
Called(op) == CallIndices(op) # {}
CalledOnce(op) == Cardinality(CallIndices(op)) = 1
TheCall(op) == calls[CHOOSE i \in CallIndices(op) : TRUE]

\* The operations that produce file lists.
LocalDiffOps == {"diff_branches_categorized", "diff_commits_categorized",
                 "get_commit_files_categorized"}
DataOps == LocalDiffOps \cup {"get_pr_files"}

\* A local repository is available to the engine.
RepoAvailable == git_ops /\ repo = "present"

IsPrEvent == config.GITHUB_EVENT_NAME \in {"pull_request", "pull_request_target"}

EmptyResult ==
    /\ result.status = "returned"
    /\ result.files = <<>> /\ result.added = <<>>
    /\ result.modified = <<>> /\ result.removed = <<>>

\* Every strategy attempted so far raised or returned no file.
AllAttemptsFailed ==
    \A i \in 1..Len(calls) :
        calls[i].op \in DataOps =>
            \/ calls[i].raised
            \/ AllFiles(calls[i].cat) = <<>> /\ calls[i].files = <<>>

\* ------------------------------------------------------------------ C1
\* C1: whatever the event, the configuration and the accessors do (any
\* accessor operation may raise), extract() returns a ChangedFilesMetadata
\* and never raises; when every strategy it attempted failed, files, added,
\* modified and removed are all empty.
C1_ExtractNeverRaises ==
    pc = "done" =>
        /\ result.status = "returned"
        /\ (AllAttemptsFailed => EmptyResult)

\* ------------------------------------------------------------------ C2
\* C2: every non-empty result of extract() has files equal to the
\* duplicate-free, lexicographically sorted union of added, modified and
\* removed.
C2_FilesIsSortedUnion ==
    (pc = "done" /\ result.status = "returned" /\ result.files # <<>>) =>
        result.files = SortedSet(Range(result.added) \cup Range(result.modified)
                                 \cup Range(result.removed))

\* ------------------------------------------------------------------ C3
\* C3: in every result of extract() each of added, modified and removed is
\* duplicate free and no path occurs in more than one of the three lists.
C3_CategoriesDisjoint ==
    (pc = "done" /\ result.status = "returned") =>
        /\ NoDuplicates(result.added)
        /\ NoDuplicates(result.modified)
        /\ NoDuplicates(result.removed)
        /\ Range(result.added) \cap Range(result.modified) = {}
        /\ Range(result.added) \cap Range(result.removed) = {}
        /\ Range(result.modified) \cap Range(result.removed) = {}

\* ------------------------------------------------------------------ C4
\* The payload marks an initial push (before is 40 zeros or "null") or has
\* no usable before/after pair.
NoBeforeAfterRange ==
    \/ config.before \in {NULL_SHA, NULL_STRING}
    \/ ~Truthy(config.before)
    \/ ~Truthy(config.after)

\* C4: on a push event whose payload has before = 40 zeros or "null" (any
\* after), or has no payload / no before / no after, the range diff
\* diff_commits_categorized is never called, and the push path (lines 101-118,
\* entered when a repository is available) makes exactly one call of
\* get_commit_files_categorized, on GITHUB_SHA.
C4_InitialPushUsesSingleCommit ==
    (config.GITHUB_EVENT_NAME = "push" /\ NoBeforeAfterRange) =>
        /\ ~Called("diff_commits_categorized")
        /\ (pc = "done" /\ RepoAvailable) =>
              /\ CalledOnce("get_commit_files_categorized")
              /\ TheCall("get_commit_files_categorized").args = <<config.GITHUB_SHA>>

C4_Witness ==
    /\ pc = "done"
    /\ config.GITHUB_EVENT_NAME = "push"
    /\ config.before = NULL_SHA /\ config.after = SHA_B
    /\ Called("get_commit_files_categorized")
    /\ result.files # <<>>

\* ------------------------------------------------------------------ C5
\* C5: on a push event with a repository present and a payload whose before
\* and after are non-empty strings, before being neither 40 zeros nor
\* "null", the range diff is called exactly once, with (before, after) in
\* that order, the single-commit diff is not called, and what the range
\* diff returned is the result's added, modified and removed.
C5_ValidRangeUsesRangeDiff ==
    ( /\ pc = "done"
      /\ config.GITHUB_EVENT_NAME = "push"
      /\ RepoAvailable
      /\ Truthy(config.before) /\ Truthy(config.after)
      /\ config.before \notin {NULL_SHA, NULL_STRING} ) =>
        /\ CalledOnce("diff_commits_categorized")
        /\ TheCall("diff_commits_categorized").args = <<config.before, config.after>>
        /\ ~Called("get_commit_files_categorized")
        /\ result.status = "returned"
        /\ ~TheCall("diff_commits_categorized").raised =>
              /\ result.added = TheCall("diff_commits_categorized").cat.added
              /\ result.modified = TheCall("diff_commits_categorized").cat.modified
              /\ result.removed = TheCall("diff_commits_categorized").cat.removed

C5_Witness ==
    /\ pc = "done"
    /\ config.GITHUB_EVENT_NAME = "push"
    /\ config.before = SHA_A /\ config.after = SHA_B
    /\ Called("diff_commits_categorized")
    /\ result.added # <<>> /\ result.removed # <<>>

\* ------------------------------------------------------------------ C6
\* C6: on a pull_request / pull_request_target event in mode auto with a
\* token, an API client and a local repository, the engine selects the
\* remote-API path (and calls get_pr_files once when a PR number resolves)
\* and calls no local diff primitive.
C6_AutoPrefersApi ==
    ( /\ IsPrEvent
      /\ config.CHANGE_DETECTION = "auto"
      /\ Truthy(config.GITHUB_TOKEN)
      /\ github_api
      /\ RepoAvailable ) =>
        /\ \A i \in 1..Len(calls) : calls[i].op \notin LocalDiffOps
        /\ pc \notin {"extract", "pr"} => strategy = "api"
        /\ (pc = "done" /\ GetPrNumber(config) # 0) => CalledOnce("get_pr_files")

C6_Witness ==
    /\ pc = "done"
    /\ IsPrEvent
    /\ config.CHANGE_DETECTION = "auto"
    /\ Truthy(config.GITHUB_TOKEN)
    /\ github_api
    /\ RepoAvailable
    /\ Called("get_pr_files")
    /\ result.files # <<>>

\* ------------------------------------------------------------------ C7
AutoNoTokenWithRepo ==
    /\ IsPrEvent
    /\ config.CHANGE_DETECTION = "auto"
    /\ ~Truthy(config.GITHUB_TOKEN)
    /\ RepoAvailable

\* is_shallow_clone() returned (True or False) to the engine.
ShallowCheckReturned ==
    \E i \in CallIndices("is_shallow_clone") : ~calls[i].raised

\* C7 as stated: on a pull-request event in mode auto without a token,
\* whenever a local repository is present the three-way diff is invoked and
\* the remote API is never called.
C7_AutoNoTokenInvokesThreeWayDiff ==
    (pc = "done" /\ AutoNoTokenWithRepo) =>
        /\ Called("diff_branches_categorized")
        /\ ~Called("get_pr_files")

\* C7 amended: on a pull-request event in mode auto without a token,
\* whenever a local repository is present the engine selects the
\* local-history path and never calls the remote API, even if an API client
\* exists; the three-way diff is invoked exactly when GITHUB_BASE_REF is set
\* and the shallow check returns, and with no base ref the path goes
\* straight to the fallback chain.
C7_AutoNoTokenUsesLocalHistory ==
    AutoNoTokenWithRepo =>
        /\ ~Called("get_pr_files")
        /\ pc \notin {"extract", "pr"} => strategy = "git"
        /\ pc = "done" =>
              /\ Called("diff_branches_categorized") <=>
                    (Truthy(config.GITHUB_BASE_REF) /\ ShallowCheckReturned)
              /\ ~Truthy(config.GITHUB_BASE_REF) =>
                    Called("diff_commits_categorized")

C7_Witness ==
    /\ pc = "done"
    /\ AutoNoTokenWithRepo
    /\ github_api
    /\ Called("diff_branches_categorized")
    /\ result.files # <<>>

\* ------------------------------------------------------------------ C8
GitAccessorOps == LocalDiffOps \cup
    {"has_git_repo", "is_shallow_clone", "fetch_branch", "deepen"}

\* C8: on a pull-request event an explicit mode is never overridden: in
\* mode github_api no operation of the local accessor is invoked, in mode
\* git the remote API is never called; when the requested source is
\* unavailable (github_api without token or client, git without handler or
\* repository) the result is empty and no diff or file-list operation of
\* either accessor is invoked.
C8_ExplicitModeNotOverridden ==
    IsPrEvent =>
        /\ config.CHANGE_DETECTION = "github_api" =>
              \A i \in 1..Len(calls) : calls[i].op \notin GitAccessorOps
        /\ config.CHANGE_DETECTION = "git" => ~Called("get_pr_files")
        /\ ( /\ config.CHANGE_DETECTION = "github_api"
             /\ ~(github_api /\ Truthy(config.GITHUB_TOKEN)) ) =>
              /\ \A i \in 1..Len(calls) : calls[i].op \notin DataOps
              /\ pc = "done" => EmptyResult
        /\ ( /\ config.CHANGE_DETECTION = "git"
             /\ (~git_ops \/ repo = "absent") ) =>
              /\ \A i \in 1..Len(calls) : calls[i].op \notin DataOps
              /\ pc = "done" => EmptyResult

C8_Witness ==
    /\ pc = "done"
    /\ IsPrEvent
    /\ config.CHANGE_DETECTION = "github_api"
    /\ github_api /\ ~Truthy(config.GITHUB_TOKEN)
    /\ RepoAvailable
    /\ EmptyResult

\* ------------------------------------------------------------------ C9
RaisedCall(op) == \E i \in CallIndices(op) : calls[i].raised

\* The call that follows the i-th call is `op` with arguments `args`.
NextCallIs(i, op, args) ==
    /\ Len(calls) > i
    /\ calls[i + 1].op = op
    /\ calls[i + 1].args = args

\* C9: on the pull-request local-history path with a shallow clone, when
\* fetch_branch raised and deepen raised as well, the engine still invokes
\* the three-way diff of origin/<base> against HEAD as its next accessor
\* call, and when that diff returns no file the fallback chain follows.
C9_RepairFailureStillDiffs ==
    ( /\ strategy = "git"
      /\ RaisedCall("fetch_branch")
      /\ RaisedCall("deepen")
      /\ pc # "diff_branches" ) =>
        /\ CalledOnce("diff_branches_categorized")
        /\ \A i \in CallIndices("deepen") :
              NextCallIs(i, "diff_branches_categorized",
                         <<OriginRef(config.GITHUB_BASE_REF), "HEAD">>)
        /\ \A i \in CallIndices("diff_branches_categorized") :
              ( /\ ~calls[i].raised
                /\ AllFiles(calls[i].cat) = <<>>
                /\ pc # "fallback_head_parent" ) =>
                  NextCallIs(i, "diff_commits_categorized", <<"HEAD^1", "HEAD">>)

C9_Witness ==
    /\ pc = "done"
    /\ strategy = "git"
    /\ RaisedCall("fetch_branch")
    /\ RaisedCall("deepen")
    /\ Called("diff_branches_categorized")
    /\ Called("diff_commits_categorized")
    /\ result.files # <<>>

\* ----------------------------------------------------------------- C10
\* C10: on the pull-request local-history path (a) with no base ref the
\* engine calls neither fetch_branch, deepen nor the three-way diff and its
\* first diff is HEAD^1..HEAD; (b) when the three-way diff returns zero
\* files the next accessor call is the HEAD^1..HEAD diff; (c) when the
\* three-way diff returns at least one file, that diff is the result and no
\* fallback is invoked.
C10_FallbackChainEntry ==
    strategy = "git" =>
        /\ ~Truthy(config.GITHUB_BASE_REF) =>
              /\ ~Called("fetch_branch")
              /\ ~Called("deepen")
              /\ ~Called("diff_branches_categorized")
              /\ pc \notin {"pr_git", "fallback_head_parent"} =>
                    \E i \in 1..Len(calls) :
                        /\ calls[i].op = "diff_commits_categorized"
                        /\ calls[i].args = <<"HEAD^1", "HEAD">>
                        /\ \A j \in 1..(i - 1) : calls[j].op \notin DataOps
        /\ \A i \in CallIndices("diff_branches_categorized") :
              /\ (~calls[i].raised /\ AllFiles(calls[i].cat) = <<>>) =>
                    \/ pc = "fallback_head_parent" /\ i = Len(calls)
                    \/ NextCallIs(i, "diff_commits_categorized", <<"HEAD^1", "HEAD">>)
              /\ (~calls[i].raised /\ AllFiles(calls[i].cat) # <<>>) =>
                    /\ pc = "done"
                    /\ i = Len(calls)
                    /\ result.status = "returned"
                    /\ result.files = AllFiles(calls[i].cat)
                    /\ result.added = calls[i].cat.added
                    /\ result.modified = calls[i].cat.modified
                    /\ result.removed = calls[i].cat.removed

C10_Witness ==
    /\ pc = "done"
    /\ strategy = "git"
    /\ Truthy(config.GITHUB_BASE_REF)
    /\ \E i \in CallIndices("diff_branches_categorized") :
          ~calls[i].raised /\ AllFiles(calls[i].cat) = <<>>
    /\ Called("diff_commits_categorized")
    /\ result.files # <<>>


\* ----------------------------------------------------------------- C11
\* The call failed: it raised or returned no file.
FailedCall(c) == c.raised \/ (AllFiles(c.cat) = <<>> /\ c.files = <<>>)

\* Both strategies of the fallback chain were tried and both failed.
FallbacksExhausted ==
    /\ \E i \in CallIndices("diff_commits_categorized") :
          calls[i].args = <<"HEAD^1", "HEAD">> /\ FailedCall(calls[i])
    /\ \E i \in CallIndices("get_commit_files_categorized") :
          calls[i].args = <<"HEAD">> /\ FailedCall(calls[i])

\* C11: when every fallback strategy of the pull-request path is exhausted
\* (each raised or returned no file), extract() returns files, added,
\* modified and removed all empty and no exception propagates.
C11_ExhaustedFallbacksGiveEmpty ==
    (IsPrEvent /\ FallbacksExhausted) => (pc = "done" /\ EmptyResult)

C11_Witness ==
    /\ pc = "done"
    /\ IsPrEvent
    /\ RaisedCall("diff_commits_categorized")
    /\ RaisedCall("get_commit_files_categorized")
    /\ EmptyResult

\* ----------------------------------------------------------------- C12
OtherEvent ==
    config.GITHUB_EVENT_NAME \notin {"push", "pull_request", "pull_request_target"}

\* C12: for every event other than push, pull_request and
\* pull_request_target, extract() returns the empty result and invokes no
\* operation of the remote accessor or of the version-control accessor.
C12_OtherEventsTouchNothing ==
    OtherEvent =>
        /\ calls = <<>>
        /\ pc = "done" => EmptyResult

C12_Witness ==
    /\ pc = "done"
    /\ OtherEvent
    /\ github_api /\ Truthy(config.GITHUB_TOKEN)
    /\ RepoAvailable
    /\ EmptyResult

\* ----------------------------------------------------------------- C16
\* C16: on the remote-API path every path the API returned is in modified
\* and in files, in the order returned, and added and removed are empty.
C16_ApiPathsAreModified ==
    (pc = "done" /\ strategy = "api") =>
        \A i \in CallIndices("get_pr_files") :
            ~calls[i].raised =>
                /\ result.status = "returned"
                /\ result.modified = calls[i].files
                /\ result.files = calls[i].files
                /\ result.added = <<>>
                /\ result.removed = <<>>

C16_Witness ==
    /\ pc = "done"
    /\ strategy = "api"
    /\ Called("get_pr_files")
    /\ Len(result.modified) = 2

\* ----------------------------------------------------------------- C17
\* C17: on the remote-API path the pull-request number is the one in
\* GITHUB_REF whenever the ref matches refs/pull/<number>/, whatever the
\* payload holds; the payload number is used only when the ref is absent or
\* does not match; when neither gives a number no API call is made and the
\* result is empty.
C17_PrNumberResolution ==
    (pc = "done" /\ strategy = "api") =>
        /\ (Truthy(config.GITHUB_REF) /\ RefMatchesPull(config.GITHUB_REF)) =>
              /\ CalledOnce("get_pr_files")
              /\ TheCall("get_pr_files").num = RefPrNumber(config.GITHUB_REF)
        /\ ( /\ ~(Truthy(config.GITHUB_REF) /\ RefMatchesPull(config.GITHUB_REF))
             /\ config.pr_number # 0 ) =>
              /\ CalledOnce("get_pr_files")
              /\ TheCall("get_pr_files").num = config.pr_number
        /\ ( /\ ~(Truthy(config.GITHUB_REF) /\ RefMatchesPull(config.GITHUB_REF))
             /\ config.pr_number = 0 ) =>
              /\ ~Called("get_pr_files")
              /\ EmptyResult

C17_Witness ==
    /\ pc = "done"
    /\ strategy = "api"
    /\ config.GITHUB_REF = "refs/pull/7/merge"
    /\ config.pr_number = 9
    /\ Called("get_pr_files")
    /\ TheCall("get_pr_files").num = 7


\* ----------------------------------------------------------------- C18
\* C18: ChangedFilesLastCommitExtractor.extract() returns, for every event
\* kind, exactly the categories of get_commit_files_categorized("HEAD"),
\* with that single diff call and no other strategy; without a handler or a
\* repository it returns the empty result without calling the diff; when
\* the diff raises it returns the empty result.
C18_LastCommitIsSingleDiff ==
    pc = "done" =>
        /\ \A i \in 1..Len(calls) :
              calls[i].op \in {"has_git_repo", "get_commit_files_categorized"}
        /\ RepoAvailable =>
              /\ CalledOnce("get_commit_files_categorized")
              /\ TheCall("get_commit_files_categorized").args = <<"HEAD">>
              /\ result.status = "returned"
              /\ IF TheCall("get_commit_files_categorized").raised
                 THEN EmptyResult
                 ELSE /\ result.added = TheCall("get_commit_files_categorized").cat.added
                      /\ result.modified = TheCall("get_commit_files_categorized").cat.modified
                      /\ result.removed = TheCall("get_commit_files_categorized").cat.removed
        /\ (~git_ops \/ repo = "absent") =>
              /\ ~Called("get_commit_files_categorized")
              /\ EmptyResult

C18_Witness ==
    /\ pc = "done"
    /\ config.GITHUB_EVENT_NAME = "release"
    /\ Called("get_commit_files_categorized")
    /\ result.added # <<>>
    /\ result.removed # <<>>

\* ----------------------------------------------------------------- C19
\* C19: whatever categorized diff the accessor returns, the files list of
\* ChangedFilesLastCommitExtractor.extract() is the sorted, duplicate-free
\* union of added, modified and removed, and count is its length.
C19_LastCommitFilesSortedUnion ==
    (pc = "done" /\ result.status = "returned") =>
        /\ result.files = SortedSet(Range(result.added) \cup Range(result.modified)
                                    \cup Range(result.removed))
        /\ result.count = Len(result.files)
        /\ result.count = Cardinality(Range(result.added) \cup Range(result.modified)
                                      \cup Range(result.removed))

C19_Witness ==
    /\ pc = "done"
    /\ result.added = <<2>>
    /\ result.modified = <<1>>
    /\ result.files = <<1, 2>>
    /\ result.count = 2

\* ------------------------------------------------------------------ C14
\* C14: for a commit with zero parents, get_commit_files_categorized
\* returns added = the sorted tracked file paths of the commit's tree,
\* modified = [] and removed = [].
C14_RootCommitAddsTrackedFiles ==
    (catops.input.kind = "root" /\ catops.commit.ran) =>
        /\ catops.commit.added =
              SortedSet({ p \in Paths : catops.input.tree[p] = "blob" })
        /\ catops.commit.modified = <<>>
        /\ catops.commit.removed = <<>>

\* ------------------------------------------------------------------ C15
\* The paths the stated rule files under each category for a set of diff
\* records.
RuleAdded(diffs) ==
    { d.b_path : d \in { x \in diffs : x.new_file /\ x.b_path # NoPath } }

RuleRemoved(diffs) ==
    { d.a_path : d \in { x \in diffs : x.deleted_file /\ x.a_path # NoPath } }

RuleModified(diffs) ==
    { d.b_path : d \in { x \in diffs :
        ~x.new_file /\ ~x.deleted_file /\ x.b_path # NoPath } }
    \cup { d.a_path : d \in { x \in diffs :
        /\ ~x.new_file /\ ~x.deleted_file /\ ~x.renamed_file
        /\ x.b_path = NoPath /\ x.a_path # NoPath } }

FollowsRule(out, diffs) ==
    /\ out.added = SortedSet(RuleAdded(diffs))
    /\ out.removed = SortedSet(RuleRemoved(diffs))
    /\ out.modified = SortedSet(RuleModified(diffs))
    /\ \A l \in {out.added, out.removed, out.modified} :
          l = SortedSet(Range(l))

\* C15: the single-commit, range and branches operations file every diff
\* record by one rule (new file: added under the new path; deleted file:
\* removed under the old path; renamed file: modified under the new path
\* only; anything else: modified) and return sorted duplicate-free lists.
C15_UniformCategorization ==
    catops.input.kind = "diff" =>
        \A out \in {catops.commit, catops.range, catops.branches} :
            out.ran => FollowsRule(out, catops.input.diffs)

C15_Witness ==
    /\ catops.input.kind = "diff"
    /\ catops.commit.ran /\ catops.range.ran /\ catops.branches.ran
    /\ \E d \in catops.input.diffs :
          d.renamed_file /\ d.a_path = 1 /\ d.b_path = 2
    /\ \E d \in catops.input.diffs : d.new_file /\ d.b_path = 1
    /\ catops.branches.modified = <<2>>
    /\ catops.branches.added = <<1>>
    /\ catops.commit = catops.branches
    /\ catops.range = catops.branches


\* ------------------------------------------------------------------ C13
\* The last call was diff_branches_categorized.
LastWasDiff == trace.last.op = "diff_branches_categorized"

\* C13 as stated: between two successful fetches, two calls of
\* diff_branches_categorized with one (base, head) invoke the merge-base
\* primitive exactly once in total, and the first call after a fetch
\* invokes it again.
C13_TwoCallsInvokeOnce ==
    /\ \A pair \in BranchPairs :
          trace.calls[pair] >= 2 => trace.prims[pair] = 1
    /\ (LastWasDiff /\ trace.calls[trace.last.pair] = 1) => trace.last.prim

\* C13, amended: counting the calls that reach the merge-base step
\* (repository available, both refs resolved), a merge base that was
\* computed (found or not) is never computed again before the next
\* successful fetch_branch or deepen, so two such calls invoke the
\* primitive exactly once unless it raised; the first such call after a
\* successful fetch_branch or deepen invokes the primitive.
C13_ComputedMergeBaseIsMemoized ==
    /\ \A pair \in BranchPairs :
          /\ trace.prims[pair] <= trace.raised[pair] + 1
          /\ trace.reached[pair] >= 1 => trace.prims[pair] >= 1
          /\ (trace.reached[pair] >= 2 /\ trace.raised[pair] = 0) =>
                trace.prims[pair] = 1
    /\ (LastWasDiff /\ trace.last.reached
          /\ trace.reached[trace.last.pair] = 1) => trace.last.prim

C13_Witness ==
    /\ LastWasDiff
    /\ trace.after_success
    /\ trace.reached[trace.last.pair] = 2
    /\ trace.prims[trace.last.pair] = 1
    /\ self._merge_base_cache[trace.last.pair] = None
    /\ ~trace.last.prim
    /\ trace.last.ret = None

\* ------------------------------------------------------------------ C20
LastWasShallowCheck == trace.last.op = "is_shallow_clone"

\* has_git_repo() looks at .git at most once in the life of the instance
\* and answers the same ever after; is_shallow_clone() called again
\* without a reset looks at nothing and repeats its answer.
CachedAnswersStick ==
    /\ trace.git_inspections <= 1
    /\ trace.last.op = "has_git_repo" => trace.last.ret = trace.git_answer
    /\ self._has_git # None => self._has_git = trace.git_answer
    /\ (LastWasShallowCheck /\ trace.shallow_calls >= 2) =>
          /\ ~trace.last.inspected
          /\ trace.last.ret = trace.shallow_answer

\* C20 as stated: both checks inspect the repository only on their first
\* call and then repeat the cached answer, the has-repository cache is
\* never reset, and after any fetch_branch or deepen the next
\* is_shallow_clone() inspects the repository again.
C20_AnyFetchResetsShallowCache ==
    /\ CachedAnswersStick
    /\ (LastWasShallowCheck /\ trace.last.after_attempt) =>
          trace.last.inspected

\* C20, amended: as stated, but the shallow-status cache is reset by the
\* fetch_branch and deepen calls that succeed; one that raises leaves it.
C20_SuccessfulFetchResetsShallowCache ==
    /\ CachedAnswersStick
    /\ (LastWasShallowCheck /\ trace.last.after_success) =>
          trace.last.inspected

C20_Witness ==
    /\ LastWasShallowCheck
    /\ trace.last.after_success
    /\ trace.last.inspected
    /\ trace.shallow_calls = 1
    /\ trace.git_inspections = 1
    /\ self._has_git = "True"
    /\ ~worktree.dot_git


\* ------------------------------------------------------------------ C21
\* The call before the i-th one.
PrevCall(i) == calls[i - 1]

\* C21: on the pull-request local-history path fetch_branch(origin/<base>,
\* depth=1) is called only right after is_shallow_clone() returned True,
\* deepen(GIT_FETCH_DEPTH) only right after that fetch raised, and the
\* three-way diff only once the repair attempts are over: after a clone
\* found complete, a fetch that succeeded, or a deepen (whatever it did).
C21_RepairIsOrdered ==
    strategy = "git" =>
        /\ \A i \in CallIndices("fetch_branch") :
              /\ calls[i].args = <<OriginRef(config.GITHUB_BASE_REF)>>
              /\ calls[i].num = 1
              /\ i > 1
              /\ PrevCall(i).op = "is_shallow_clone"
              /\ ~PrevCall(i).raised /\ PrevCall(i).flag
        /\ \A i \in CallIndices("deepen") :
              /\ calls[i].num = config.GIT_FETCH_DEPTH
              /\ i > 1
              /\ PrevCall(i).op = "fetch_branch" /\ PrevCall(i).raised
        /\ \A i \in CallIndices("diff_branches_categorized") :
              /\ i > 1
              /\ \/ /\ PrevCall(i).op = "is_shallow_clone"
                    /\ ~PrevCall(i).raised /\ ~PrevCall(i).flag
                 \/ PrevCall(i).op = "fetch_branch" /\ ~PrevCall(i).raised
                 \/ PrevCall(i).op = "deepen"
        /\ pc = "diff_branches" =>
              /\ Len(calls) > 0
              /\ calls[Len(calls)].op \in
                    {"is_shallow_clone", "fetch_branch", "deepen"}

C21_Witness ==
    /\ pc = "done"
    /\ strategy = "git"
    /\ RaisedCall("fetch_branch")
    /\ Called("deepen") /\ ~RaisedCall("deepen")
    /\ Called("diff_branches_categorized")
    /\ ~Called("diff_commits_categorized")
    /\ result.files # <<>>

\* ------------------------------------------------------------------ C22
\* C22: the fallback chain calls the HEAD^1..HEAD range diff first and the
\* single-commit diff of HEAD second; the first strategy that returns
\* files gives the result; the second is called exactly when the first
\* raised or returned no file, an exception of the first included.
C22_FallbackChainOrder ==
    strategy = "git" =>
        /\ \A i \in CallIndices("get_commit_files_categorized") :
              /\ calls[i].args = <<"HEAD">>
              /\ i > 1
              /\ PrevCall(i).op = "diff_commits_categorized"
              /\ PrevCall(i).args = <<"HEAD^1", "HEAD">>
              /\ FailedCall(PrevCall(i))
        /\ \A i \in CallIndices("diff_commits_categorized") :
              /\ calls[i].args = <<"HEAD^1", "HEAD">>
              /\ FailedCall(calls[i]) =>
                    \/ pc = "fallback_diff_tree" /\ i = Len(calls)
                    \/ NextCallIs(i, "get_commit_files_categorized", <<"HEAD">>)
        /\ \A i \in CallIndices("diff_commits_categorized")
                    \cup CallIndices("get_commit_files_categorized") :
              ~FailedCall(calls[i]) =>
                    /\ i = Len(calls)
                    /\ pc = "done"
                    /\ result.status = "returned"
                    /\ result.files = AllFiles(calls[i].cat)
                    /\ result.added = calls[i].cat.added
                    /\ result.modified = calls[i].cat.modified
                    /\ result.removed = calls[i].cat.removed

C22_Witness ==
    /\ pc = "done"
    /\ strategy = "git"
    /\ RaisedCall("diff_commits_categorized")
    /\ Called("get_commit_files_categorized")
    /\ ~RaisedCall("get_commit_files_categorized")
    /\ result.files # <<>>
    /\ ~Called("diff_branches_categorized")

\* ------------------------------------------------------------------ C26
\* C26: on a pull-request event at most one data source is used: once the
\* remote-API strategy is selected no operation of the local accessor
\* other than the has_git_repo() of the selection is invoked, and when the
\* API call raises or no pull-request number is resolved the result is
\* empty, whatever the mode and the repository.
C26_ApiFailureIsFinal ==
    IsPrEvent =>
        /\ ~(Called("get_pr_files") /\ \E op \in LocalDiffOps : Called(op))
        /\ strategy = "api" =>
              /\ \A i \in 1..Len(calls) :
                    calls[i].op \notin GitAccessorOps \ {"has_git_repo"}
              /\ ( /\ pc = "done"
                   /\ \/ RaisedCall("get_pr_files")
                      \/ GetPrNumber(config) = 0 ) => EmptyResult

C26_Witness ==
    /\ pc = "done"
    /\ IsPrEvent
    /\ strategy = "api"
    /\ config.CHANGE_DETECTION = "auto"
    /\ RepoAvailable
    /\ RaisedCall("get_pr_files")
    /\ EmptyResult

\* ------------------------------------------------------------------ C27
\* C27: on the pull-request local-history path, when the three-way diff
\* or the shallow-status check raises, extract() returns the empty result
\* and calls neither fallback strategy; the fallback chain is entered only
\* with no base ref or after a three-way diff that returned no file.
C27_RaisedDiffSkipsFallback ==
    strategy = "git" =>
        /\ ( \/ RaisedCall("diff_branches_categorized")
             \/ RaisedCall("is_shallow_clone") ) =>
              /\ pc = "done"
              /\ EmptyResult
              /\ ~Called("diff_commits_categorized")
              /\ ~Called("get_commit_files_categorized")
        /\ ( \/ pc \in {"fallback_head_parent", "fallback_diff_tree"}
             \/ Called("diff_commits_categorized")
             \/ Called("get_commit_files_categorized") ) =>
              \/ ~Truthy(config.GITHUB_BASE_REF)
              \/ \E i \in CallIndices("diff_branches_categorized") :
                    ~calls[i].raised /\ AllFiles(calls[i].cat) = <<>>

C27_Witness ==
    /\ pc = "done"
    /\ strategy = "git"
    /\ RepoAvailable
    /\ RaisedCall("diff_branches_categorized")
    /\ Len(calls) >= 2
    /\ EmptyResult

\* ------------------------------------------------------------------ C28
\* The operations an extract() call may invoke at most once.
OnceOps == {"fetch_branch", "deepen", "diff_branches_categorized",
            "diff_commits_categorized", "get_commit_files_categorized",
            "get_pr_files"}

AtMostOnceEach ==
    /\ \A op \in OnceOps : Cardinality(CallIndices(op)) <= 1
    /\ Len(calls) <= Cardinality(OnceOps) + 1

\* C28: every extract() call terminates, and on the way it invokes each of
\* fetch_branch, deepen, the three-way diff, the range diff, the
\* single-commit diff and the API file list at most once.
C28_TerminatesWithoutRetries ==
    /\ <>(pc = "done")
    /\ []AtMostOnceEach

C28_Witness ==
    /\ pc = "done"
    /\ \A op \in OnceOps \ {"get_pr_files"} : CalledOnce(op)
    /\ Called("has_git_repo")


\* ------------------------------------------------------------------ C25
Min(a, b) == IF a <= b THEN a ELSE b

\* C25: get_pr_files(repo, pr, max_files) returns the first
\* min(n, max_files) file names of the listing, in the listing's order,
\* and so never more than max_files entries.
C25_FirstMaxFilesInOrder ==
    prfiles.pc = "returned" =>
        /\ prfiles.files = SubSeq(prfiles.listing, 1,
                                  Min(Len(prfiles.listing), prfiles.max_files))
        /\ Len(prfiles.files) <= prfiles.max_files


\* ------------------------------------------------------------------ C23
\* C23: without a merge base diff_branches_categorized(base, head) returns
\* what diff_commits_categorized(base, head) returns; with a merge base M
\* it returns what diff_commits_categorized(M, head) returns.
C23_ThreeWayIsTwoWayFromMergeBase ==
    catops.branches.ran =>
        /\ (catops.input.merge_base = None /\ catops.range.ran) =>
              catops.branches = catops.range
        /\ (catops.input.merge_base # None /\ catops.range_mb.ran) =>
              catops.branches = catops.range_mb

C23_Witness ==
    /\ catops.input.merge_base # None
    /\ catops.branches.ran /\ catops.range.ran /\ catops.range_mb.ran
    /\ catops.branches = catops.range_mb
    /\ catops.branches # catops.range
    /\ catops.branches.added # <<>>


\* ------------------------------------------------------------------ C30
\* C30: where HEAD has a first parent, the HEAD^1..HEAD range diff and the
\* single-commit diff of HEAD return the same categories; so in the
\* fallback chain the second strategy returns files only when the first
\* one raised, never after the first returned normally without files.
C30_SecondFallbackOnlyAfterRaise ==
    /\ catops.input.kind = "diff" =>
          DiffCommitsCategorized(catops.input) =
              GetCommitFilesCategorized(catops.input)
    /\ \A i \in CallIndices("get_commit_files_categorized") :
          ~FailedCall(calls[i]) =>
              /\ PrevCall(i).op = "diff_commits_categorized"
              /\ PrevCall(i).raised

C30_Witness ==
    /\ pc = "done"
    /\ catops.input.kind = "root"
    /\ RaisedCall("diff_commits_categorized")
    /\ Called("get_commit_files_categorized")
    /\ result.files # <<>>
    /\ result.added = result.files


\* ------------------------------------------------------------------ C24
LastWasRepair == trace.last.op \in {"fetch_branch", "deepen"}

CachesCleared(s) ==
    /\ s._is_shallow = None
    /\ \A pair \in BranchPairs : s._merge_base_cache[pair] = NotCached

\* A cached shallow status or merge base is dropped or replaced.
CacheEntryLost ==
    \/ self._is_shallow # None /\ self'._is_shallow # self._is_shallow
    \/ \E pair \in BranchPairs :
          /\ self._merge_base_cache[pair] # NotCached
          /\ self'._merge_base_cache[pair] # self._merge_base_cache[pair]

\* C24: every failing fetch_branch or deepen raises GitOperationError,
\* and the shallow-status and merge-base caches are cleared exactly by the
\* fetch_branch and deepen calls that succeed: a failing one and every
\* diff or query leave the existing entries as they are.
C24_FailuresAreGitOperationErrors ==
    /\ []((LastWasRepair /\ trace.last.raised) =>
            trace.last.error = "GitOperationError")
    /\ []((LastWasRepair /\ ~trace.last.raised) => CachesCleared(self))
    /\ [][CacheEntryLost =>
            /\ trace'.last.op \in {"fetch_branch", "deepen"}
            /\ ~trace'.last.raised]_vars

\* ------------------------------------------------------------------ C29
\* What an inspection of the repository would find now.
CurrentShallow == worktree.dot_git /\ worktree.shallow

MergeBaseCacheCoherent ==
    \A pair \in BranchPairs :
        self._merge_base_cache[pair] # NotCached =>
            self._merge_base_cache[pair] = MergeBase(worktree, pair)

====
